---------------------------- MODULE Spec2Model ----------------------------
(***************************************************************************)
(* State-machine model of the flash-sale backend (dooyo/notTrader).        *)
(*                                                                         *)
(* Counter Store (CS) = Redis: the keys sale:{id}:sold,                    *)
(* user:{u}:sale:{id}:count, active_sale_id and checkout:{code}.           *)
(* Record Store (RS) = PostgreSQL: the tables sales, checkout_attempts     *)
(* and purchases.  Every Redis command / Lua script and every SQL          *)
(* statement is one atomic step; a handler is the sequence of its store    *)
(* calls, so concurrent handlers interleave between store calls.           *)
(*                                                                         *)
(* Time is counted in ticks of ten minutes.                                *)
(***************************************************************************)
EXTENDS Integers, Sequences, FiniteSets, TLC

(***************************************************************************)
(* Bounds of the model.                                                    *)
(***************************************************************************)
\* Inventory of a sale: 10000 in the code (sale_service.go:39 and the
\* literal passed by AttemptPurchase), scaled down for model checking.
InventoryMax == 3
\* Purchases per user per sale: 10 in the code (AttemptPurchase), scaled down.
PerUserMax == 2
\* Rows of the sales table (SERIAL ids 1..MaxSales).
MaxSales == 2
\* Last tick of the wall clock.
MaxTime == 2
\* Record-store statements that may fail in one behaviour.
MaxFailures == 1
\* Drift between the sold counter and sales.items_sold that
\* syncSaleCounters tolerates: 10 in the code (sale_service.go:230), scaled
\* down with the inventory.
DriftThreshold == 0
\* Counter-store failures injected in a run.
MaxCsFailures == 1
\* Last tick of the wall clock while the scheduler runs.
MaxClock == 11

(***************************************************************************)
(* Program constants, in ticks of ten minutes.                             *)
(***************************************************************************)
\* now.Add(10 * time.Minute)
CodeTTL == 1
\* startTime.Add(time.Hour)
HourLen == 6

\* len(req.UserID) < 1 || len(req.UserID) > 100
UserIdMin == 1
UserIdMax == 100
\* len(itemID) < 3 || len(itemID) > 50
ItemIdMin == 3
ItemIdMax == 50
\* checkout_attempts: user_id VARCHAR(50), item_id VARCHAR(50)
UserIdColumn == 50
ItemIdColumn == 50

Users == {"u1", "u2", "u3"}
Items == {"item_a"}
\* The checkout codes of the model (CHK_x is one that is never issued below).
Codes == {"CHK_a", "CHK_b", "CHK_c", "CHK_d", "CHK_x"}
SaleIds == 1..MaxSales

\* Identifiers a request may carry besides the ones above; each stands for
\* a string of the length IdLen gives, "item a" for one with a character
\* outside [A-Za-z0-9_-].
RequestUserIds ==
    {"", "u", "u1", "user_50_chars", "user_51_chars", "user_100_chars",
     "user_101_chars"}
RequestItemIds ==
    {"", "it", "itm", "item_a", "item a", "item_50_chars", "item_51_chars"}

IdLen(id) ==
    CASE id = "" -> 0
      [] id = "u" -> 1
      [] id \in {"u1", "u2", "u3", "it"} -> 2
      [] id = "itm" -> 3
      [] id \in {"item_a", "item a"} -> 6
      [] id \in {"user_50_chars", "item_50_chars"} -> 50
      [] id \in {"user_51_chars", "item_51_chars"} -> 51
      [] id = "user_100_chars" -> 100
      [] id = "user_101_chars" -> 101

IdCharsValid(id) == id # "item a"

\* A Redis key that does not exist (GET returns nil).
NoKey == -1
\* The Go zero value of a string (a Purchase.Code that is never assigned).
EmptyString == ""

NoAttempt ==
    [id |-> 0, sale_id |-> 0, user_id |-> EmptyString, item_id |-> EmptyString,
     code |-> EmptyString, status |-> EmptyString, expires_at |-> 0,
     purchased |-> FALSE]
NoSale ==
    [id |-> 0, start_time |-> 0, end_time |-> 0, items_available |-> 0,
     items_sold |-> 0, active |-> FALSE]
NoResult == [status |-> EmptyString, userPurchases |-> 0, totalSold |-> 0]
NoResp == [http |-> 0, msg |-> EmptyString, userPurchases |-> 0, purchaseId |-> 0]

VARIABLES
    now,          \* wall clock
    csSold,       \* CS: sale:{id}:sold, NoKey when absent
    csAvailable,  \* CS: sale:{id}:available (and :cache), NoKey when absent
    csUser,       \* CS: user:{u}:sale:{id}:count, NoKey when absent
    csActive,     \* CS: active_sale_id (0 when absent or cleared)
    csCache,      \* CS: checkout:{code} hashes, code -> used flag
    rsSales,      \* RS: table sales, row i has id i
    rsAttempts,   \* RS: table checkout_attempts, row i has id i
    rsPurchases,  \* RS: table purchases, row i has id i
    wk,           \* the workers (one goroutine each): position and locals
    faults        \* store failures still to be injected: [rs, cs]

vars == <<now, csSold, csAvailable, csUser, csActive, csCache, rsSales,
          rsAttempts, rsPurchases, wk, faults>>

csVars == <<csSold, csAvailable, csUser, csActive, csCache>>
rsVars == <<rsSales, rsAttempts, rsPurchases>>

(***************************************************************************)
(* Workers.                                                                *)
(***************************************************************************)
CSCallers == {"c1", "c2", "c3", "c4"}
PurchaseWorkers == {"p1", "p2", "p3"}
CheckoutWorkers == {"k1", "k2"}
SaleWorkers == {"s1", "s2"}
\* BackgroundSaleManager: "bsm" runs Start, "e1" the goroutine of
\* ensureActiveSale, the others the goroutines of createNewHourlySale.
HourlyWorkers == {"h1", "h2"}
SchedulerWorkers == {"bsm", "e1"} \cup HourlyWorkers
Workers ==
    CSCallers \cup PurchaseWorkers \cup CheckoutWorkers \cup SaleWorkers
        \cup SchedulerWorkers

IdleWorker ==
    [op |-> "none", pc |-> "idle", code |-> EmptyString, user |-> EmptyString,
     item |-> EmptyString, arg |-> 0, co |-> NoAttempt, sale |-> NoSale,
     ptr |-> 0, sold |-> 0, items |-> 0, max_items |-> 0,
     max_user_items |-> 0, res |-> NoResult, resp |-> NoResp,
     \* of "bsm": the ticker's next firing time, the ticks waiting in
     \* ticker.C, whether stopChan is closed; of a goroutine: the clock
     \* reading when it was launched
     tickAt |-> 0, tickerC |-> 0, stopChan |-> FALSE, at |-> 0]

Val(x) == IF x = NoKey THEN 0 ELSE x

(***************************************************************************)
(* Counter Store: the Lua scripts and the plain commands.                  *)
(***************************************************************************)
\* Faulty variant: the global inventory check is dropped.
AtomicPurchaseLua_NoInventoryCheck(saleId, userId, maxItems, maxUserItems) ==
    LET sold == Val(csSold[saleId])
        user_count == Val(csUser[<<userId, saleId>>])
    IN  IF user_count >= maxUserItems
        THEN [success |-> FALSE, message |-> "user_limit_exceeded",
              sold |-> sold, userCount |-> user_count]
        ELSE [success |-> TRUE, message |-> "success",
              sold |-> sold + 1, userCount |-> user_count + 1]

\* Faulty variant: the per-user check is dropped.
AtomicPurchaseLua_NoUserCheck(saleId, userId, maxItems, maxUserItems) ==
    LET sold == Val(csSold[saleId])
        user_count == Val(csUser[<<userId, saleId>>])
    IN  IF sold >= maxItems
        THEN [success |-> FALSE, message |-> "sale_sold_out",
              sold |-> sold, userCount |-> user_count]
        ELSE [success |-> TRUE, message |-> "success",
              sold |-> sold + 1, userCount |-> user_count + 1]

\* Faulty variant: on success only the per-user counter is incremented.
AtomicPurchaseLua_NoSoldIncr(saleId, userId, maxItems, maxUserItems) ==
    LET sold == Val(csSold[saleId])
        user_count == Val(csUser[<<userId, saleId>>])
    IN  IF sold >= maxItems
        THEN [success |-> FALSE, message |-> "sale_sold_out",
              sold |-> sold, userCount |-> user_count]
        ELSE IF user_count >= maxUserItems
        THEN [success |-> FALSE, message |-> "user_limit_exceeded",
              sold |-> sold, userCount |-> user_count]
        ELSE [success |-> TRUE, message |-> "success",
              sold |-> sold, userCount |-> user_count + 1]

\* atomicPurchaseLua: the reply {success, message, sold, user_count}.  On
\* success the two INCRs leave the keys at the returned values.
AtomicPurchaseLua(saleId, userId, maxItems, maxUserItems) ==
    LET sold == Val(csSold[saleId])
        user_count == Val(csUser[<<userId, saleId>>])
    IN  IF sold >= maxItems
        THEN [success |-> FALSE, message |-> "sale_sold_out",
              sold |-> sold, userCount |-> user_count]
        ELSE IF user_count >= maxUserItems
        THEN [success |-> FALSE, message |-> "user_limit_exceeded",
              sold |-> sold, userCount |-> user_count]
        ELSE [success |-> TRUE, message |-> "success",
              sold |-> sold + 1, userCount |-> user_count + 1]

\* The keys after the script ran with reply r.
AtomicPurchaseEffect(saleId, userId, r) ==
    /\ csSold' = IF r.success THEN [csSold EXCEPT ![saleId] = r.sold] ELSE csSold
    /\ csUser' = IF r.success
                 THEN [csUser EXCEPT ![<<userId, saleId>>] = r.userCount]
                 ELSE csUser

\* RedisClient.AttemptPurchase: AtomicPurchase with the literal limits; the
\* status is the script's message, "success" on success.
AttemptPurchase(saleId, userId) ==
    LET r == AtomicPurchaseLua(saleId, userId, InventoryMax, PerUserMax)
    IN  [status |-> IF r.success THEN "success" ELSE r.message,
         userPurchases |-> r.userCount, totalSold |-> r.sold]

\* Faulty variant: the sold key is left as it is when it exists.
SetupSaleLua_KeepSold(saleId, itemsAvailable) ==
    /\ csSold' = [csSold EXCEPT ![saleId] = Val(@)]
    /\ csAvailable' = [csAvailable EXCEPT ![saleId] = itemsAvailable]
    /\ csActive' = saleId

\* setupSaleLua: SET sold 0, SET available items_available, SET
\* active_sale_id sale_id.  The hash sale:{id}:cache is written in the same
\* script with (id, available = items_available, sold = 0, active = true):
\* it is a function of the arguments, exists exactly when the available
\* key does, and is read by no operation, so csAvailable stands for both.
\* The key expirations (24 h, 1 h) exceed the modelled time span.
SetupSaleLua(saleId, itemsAvailable) ==
    /\ csSold' = [csSold EXCEPT ![saleId] = 0]
    /\ csAvailable' = [csAvailable EXCEPT ![saleId] = itemsAvailable]
    /\ csActive' = saleId

\* RedisClient.GetSoldItems
GetSoldItems(saleId) == Val(csSold[saleId])

\* RedisClient.GetUserPurchaseCount
GetUserPurchaseCount(userId, saleId) == Val(csUser[<<userId, saleId>>])

(***************************************************************************)
(* Harness of the counter store alone: concurrent callers of               *)
(* AtomicPurchase, as in TestRedis_ConcurrentPurchases.                    *)
(***************************************************************************)
\* A caller issues AtomicPurchase(saleId, userId, InventoryMax, PerUserMax).
CallAtomicPurchase(c, saleId, userId) ==
    /\ wk[c].pc = "idle"
    /\ wk' = [wk EXCEPT ![c] = [@ EXCEPT !.op = "atomic", !.pc = "called",
                                         !.arg = saleId, !.user = userId]]
    /\ UNCHANGED <<now, csVars, rsVars, faults>>

\* The script runs (indivisibly) and the caller gets its reply.
RunAtomicPurchase(c) ==
    /\ wk[c].op = "atomic" /\ wk[c].pc = "called"
    /\ LET r == AtomicPurchaseLua(wk[c].arg, wk[c].user, InventoryMax, PerUserMax)
       IN  /\ AtomicPurchaseEffect(wk[c].arg, wk[c].user, r)
           /\ wk' = [wk EXCEPT ![c] =
                        [@ EXCEPT !.pc = "done",
                                  !.res = [status |-> r.message,
                                           userPurchases |-> r.userCount,
                                           totalSold |-> r.sold]]]
    /\ UNCHANGED <<now, csAvailable, csActive, csCache, rsVars, faults>>

(***************************************************************************)
(* Record Store: the SQL statements.                                       *)
(***************************************************************************)
\* SELECT ... FROM checkout_attempts WHERE code = $1 (code is UNIQUE)
GetCheckoutByCode(code) ==
    IF \E i \in 1..Len(rsAttempts) : rsAttempts[i].code = code
    THEN rsAttempts[CHOOSE i \in 1..Len(rsAttempts) : rsAttempts[i].code = code]
    ELSE NoAttempt

\* SELECT ... FROM sales WHERE id = $1
GetSaleByID(id) ==
    IF id \in 1..Len(rsSales) THEN rsSales[id] ELSE NoSale

\* SELECT ... WHERE active = true ORDER BY start_time DESC LIMIT 1: the rows
\* the statement may return (any of the active rows with the latest start).
GetActiveSale ==
    LET act == {i \in 1..Len(rsSales) : rsSales[i].active}
    IN  IF act = {} THEN {NoSale}
        ELSE {rsSales[i] : i \in {j \in act :
                 \A k \in act : rsSales[k].start_time <= rsSales[j].start_time}}

\* UPDATE sales SET active = false WHERE id = $1
DeactivateSaleRow(saleId) ==
    rsSales' = [rsSales EXCEPT ![saleId] = [@ EXCEPT !.active = FALSE]]

\* UPDATE checkout_attempts SET status = $2, purchased = $3 WHERE id = $1
\* (run on the pool, p.db, not on the transaction).
UpdateCheckout(co) ==
    rsAttempts' = [rsAttempts EXCEPT ![co.id] =
                      [@ EXCEPT !.status = co.status, !.purchased = co.purchased]]

\* INSERT INTO purchases ... RETURNING id (run on the pool, p.db, not on the
\* transaction).  completePurchase never assigns purchase.Code, so the code
\* column gets the empty string.
CreatePurchase(co) ==
    rsPurchases' = Append(rsPurchases,
        [id |-> Len(rsPurchases) + 1, sale_id |-> co.sale_id,
         user_id |-> co.user_id, item_id |-> co.item_id, code |-> EmptyString,
         checkout_id |-> co.id, status |-> "completed"])

\* Whether the next record-store statement works: it may fail while failures
\* are left to inject.
RSOutcomes == IF faults.rs > 0 THEN {TRUE, FALSE} ELSE {TRUE}
Inject(ok) == faults' = IF ok THEN faults ELSE [faults EXCEPT !.rs = @ - 1]

\* Whether the next counter-store command of SaleServiceImpl works.
CSOutcomes == IF faults.cs > 0 THEN {TRUE, FALSE} ELSE {TRUE}
InjectCS(ok) == faults' = IF ok THEN faults ELSE [faults EXCEPT !.cs = @ - 1]

\* The failures left to inject: n of the record store, none of the counter
\* store.
RSFaults(n) == [rs |-> n, cs |-> 0]

(***************************************************************************)
(* Responses.                                                              *)
(***************************************************************************)
Resp(http, msg) == [http |-> http, msg |-> msg, userPurchases |-> 0, purchaseId |-> 0]

\* A handler returns: its locals die, the response stays.
Respond(rec, r) ==
    [rec EXCEPT !.pc = "done", !.resp = r, !.sale = NoSale, !.ptr = 0, !.sold = 0]

(***************************************************************************)
(* SaleServiceImpl.GetCurrentActiveSale, called by processPurchase and     *)
(* processCheckout: where the caller goes on with (sale, err).             *)
(***************************************************************************)
\* Faulty variant: processPurchase goes on whatever sale was loaded.
AfterActiveSale_NoSaleCheck(rec, sale, err) ==
    IF rec.op = "purchase"
    THEN [rec EXCEPT !.pc = "p_attempt",
                     !.sale = IF sale.id = 0
                              THEN [NoSale EXCEPT !.id = rec.co.sale_id]
                              ELSE sale,
                     !.ptr = 0, !.sold = 0]
    ELSE Respond(rec, Resp(500, "Unable to process checkout at this time"))

\* Faulty variant: CreateHourlySale is called whether a sale was found or
\* not.
EnsureOutcome_AlwaysCreates(rec, sale, err) ==
    IF err
    THEN Respond(rec, Resp(500, "Error checking for active sale"))
    ELSE [rec EXCEPT !.pc = "c_start", !.sale = NoSale, !.ptr = 0, !.sold = 0]

\* ensureActiveSale, after GetCurrentActiveSale: an error is logged, a sale
\* found is logged, and with no sale CreateHourlySale is called.
EnsureOutcome(rec, sale, err) ==
    IF err
    THEN Respond(rec, Resp(500, "Error checking for active sale"))
    ELSE IF sale.id = 0
    THEN [rec EXCEPT !.pc = "c_start", !.sale = NoSale, !.ptr = 0, !.sold = 0]
    ELSE Respond(rec, Resp(200, "Found active sale"))

AfterActiveSale(rec, sale, err) ==
    CASE rec.op = "purchase" ->
           \* 4. err != nil || sale == nil || sale.ID != checkout.SaleID
           IF err \/ sale.id = 0 \/ sale.id # rec.co.sale_id
           THEN Respond(rec, Resp(400, "Sale is no longer active"))
           \* 5. GetItemByID cannot fail for an item id that passed Checkout
           ELSE [rec EXCEPT !.pc = "p_attempt", !.sale = sale, !.ptr = 0, !.sold = 0]
      [] rec.op = "checkout" ->
           IF err
           THEN Respond(rec, Resp(500, "Unable to process checkout at this time"))
           ELSE IF sale.id = 0
           THEN Respond(rec, Resp(400, "No active sale at this time"))
           \* 2. now.Before(StartTime) || now.After(EndTime)
           ELSE IF now < sale.start_time \/ now > sale.end_time
           THEN Respond(rec, Resp(400, "Sale is not currently active"))
           ELSE [rec EXCEPT !.pc = "k_insert", !.sale = sale, !.ptr = 0, !.sold = 0,
                            !.co = [NoAttempt EXCEPT !.sale_id = sale.id,
                                       !.user_id = rec.user, !.item_id = rec.item,
                                       !.status = "pending",
                                       !.expires_at = now + CodeTTL]]
      [] rec.op = "ensure" -> EnsureOutcome(rec, sale, err)
      [] OTHER -> rec

\* s.redis.GetActiveSaleID
GCAS_GetActiveSaleID(w) ==
    /\ wk[w].pc = "gcas_ptr"
    /\ \E ok \in CSOutcomes :
         /\ InjectCS(ok)
         /\ wk' = [wk EXCEPT ![w] =
                IF ok /\ csActive > 0
                THEN [@ EXCEPT !.ptr = csActive, !.pc = "gcas_row"]
                ELSE [@ EXCEPT !.ptr = IF ok THEN csActive ELSE 0,
                               !.pc = "gcas_db"]]
    /\ UNCHANGED <<now, csVars, rsVars>>

\* Faulty variant: the row the pointer names is taken whatever its active
\* flag.
GCAS_GetSaleByID_NoActiveCheck(w) ==
    /\ wk[w].pc = "gcas_row"
    /\ \E ok \in RSOutcomes :
         /\ Inject(ok)
         /\ LET sale == GetSaleByID(wk[w].ptr)
            IN  wk' = [wk EXCEPT ![w] =
                   IF ok /\ sale.id # 0
                   THEN [@ EXCEPT !.pc = "gcas_sync", !.sale = sale]
                   ELSE [@ EXCEPT !.pc = "gcas_db"]]
    /\ UNCHANGED <<now, csVars, rsVars>>

\* s.db.GetSaleByID(activeSaleID); on an error or a row that is missing or
\* not active, fall back to the database query.
GCAS_GetSaleByID(w) ==
    /\ wk[w].pc = "gcas_row"
    /\ \E ok \in RSOutcomes :
         /\ Inject(ok)
         /\ LET sale == GetSaleByID(wk[w].ptr)
            IN  wk' = [wk EXCEPT ![w] =
                   IF ok /\ sale.id # 0 /\ sale.active
                   THEN [@ EXCEPT !.pc = "gcas_sync", !.sale = sale]
                   ELSE [@ EXCEPT !.pc = "gcas_db"]]
    /\ UNCHANGED <<now, csVars, rsVars>>

\* Faulty variant: the update is issued whatever the difference.
GCAS_SyncRead_AlwaysWrites(w) ==
    /\ wk[w].pc = "gcas_sync"
    /\ \E ok \in CSOutcomes :
         /\ InjectCS(ok)
         /\ LET soldItems == GetSoldItems(wk[w].sale.id)
            IN  wk' = [wk EXCEPT ![w] =
                          IF ok
                          THEN [@ EXCEPT !.pc = "gcas_syncw", !.sold = soldItems]
                          ELSE AfterActiveSale(@, @.sale, FALSE)]
    /\ UNCHANGED <<now, csVars, rsVars>>

\* syncSaleCounters: s.redis.GetSoldItems, then the comparison.
GCAS_SyncRead(w) ==
    /\ wk[w].pc = "gcas_sync"
    /\ \E ok \in CSOutcomes :
         /\ InjectCS(ok)
         /\ LET soldItems == GetSoldItems(wk[w].sale.id)
                d == soldItems - wk[w].sale.items_sold
                absd == IF d < 0 THEN -d ELSE d
            IN  wk' = [wk EXCEPT ![w] =
                          IF ok /\ absd > DriftThreshold
                          THEN [@ EXCEPT !.pc = "gcas_syncw", !.sold = soldItems]
                          ELSE AfterActiveSale(@, @.sale, FALSE)]
    /\ UNCHANGED <<now, csVars, rsVars>>

\* The CHECK constraints of table sales on items_sold.
ItemsSoldAllowed(sale, itemsSold) ==
    itemsSold >= 0 /\ itemsSold <= sale.items_available

\* syncSaleCounters: s.db.UpdateSaleItemsSold (a failure, of the statement
\* or of a CHECK constraint, is only logged).
GCAS_SyncWrite(w) ==
    /\ wk[w].pc = "gcas_syncw"
    /\ \E ok \in RSOutcomes :
         /\ Inject(ok)
         /\ rsSales' = IF ok /\ ItemsSoldAllowed(rsSales[wk[w].sale.id],
                                                  wk[w].sold)
                       THEN [rsSales EXCEPT ![wk[w].sale.id] =
                                [@ EXCEPT !.items_sold = wk[w].sold]]
                       ELSE rsSales
    /\ wk' = [wk EXCEPT ![w] = AfterActiveSale(@, @.sale, FALSE)]
    /\ UNCHANGED <<now, csVars, rsAttempts, rsPurchases>>

\* s.db.GetActiveSale: the fallback query.
GCAS_GetActiveSale(w) ==
    /\ wk[w].pc = "gcas_db"
    /\ \E ok \in RSOutcomes, sale \in GetActiveSale :
         /\ Inject(ok)
         /\ wk' = [wk EXCEPT ![w] =
                IF ~ok THEN AfterActiveSale(@, NoSale, TRUE)
                ELSE IF sale.id = 0 THEN AfterActiveSale(@, NoSale, FALSE)
                ELSE [@ EXCEPT !.pc = "gcas_set", !.sale = sale]]
    /\ UNCHANGED <<now, csVars, rsVars>>

\* s.redis.SetActiveSaleID(sale.ID)
GCAS_SetActiveSaleID(w) ==
    /\ wk[w].pc = "gcas_set"
    /\ \E ok \in CSOutcomes :
         /\ InjectCS(ok)
         /\ csActive' = IF ok THEN wk[w].sale.id ELSE csActive
    /\ wk' = [wk EXCEPT ![w] = AfterActiveSale(@, @.sale, FALSE)]
    /\ UNCHANGED <<now, csSold, csAvailable, csUser, csCache, rsVars>>

GetCurrentActiveSale(w) ==
    \/ GCAS_GetActiveSaleID(w)
    \/ GCAS_GetSaleByID(w)
    \/ GCAS_SyncRead(w)
    \/ GCAS_SyncWrite(w)
    \/ GCAS_GetActiveSale(w)
    \/ GCAS_SetActiveSaleID(w)

(***************************************************************************)
(* PurchaseHandler.processPurchase and completePurchase.                   *)
(***************************************************************************)
\* Faulty variant: the status of the attempt is not looked at.
VerifyOutcome_NoStatusCheck(rec, code, ok) ==
    LET checkout == GetCheckoutByCode(code)
        r == [rec EXCEPT !.op = "purchase", !.code = code]
    IN  IF ~ok \/ checkout.id = 0
        THEN Respond(r, Resp(400, "Invalid or expired checkout code"))
        ELSE IF now > checkout.expires_at
        THEN Respond(r, Resp(400, "Checkout code has expired"))
        ELSE [r EXCEPT !.pc = "gcas_ptr", !.co = checkout]

\* Faulty variant: the expiry of the attempt is not looked at.
VerifyOutcome_NoExpiryCheck(rec, code, ok) ==
    LET checkout == GetCheckoutByCode(code)
        r == [rec EXCEPT !.op = "purchase", !.code = code]
    IN  IF ~ok \/ checkout.id = 0
        THEN Respond(r, Resp(400, "Invalid or expired checkout code"))
        ELSE IF checkout.status # "pending"
        THEN Respond(r, Resp(400, "Checkout code has already been used"))
        ELSE [r EXCEPT !.pc = "gcas_ptr", !.co = checkout]

\* 1.-3. verifyCheckoutCode (db.GetCheckoutByCode), then the status and the
\* expiry checks on the row just read.
VerifyOutcome(rec, code, ok) ==
    LET checkout == GetCheckoutByCode(code)
        r == [rec EXCEPT !.op = "purchase", !.code = code]
    IN  IF ~ok \/ checkout.id = 0
        THEN Respond(r, Resp(400, "Invalid or expired checkout code"))
        ELSE IF checkout.status # "pending"
        THEN Respond(r, Resp(400, "Checkout code has already been used"))
        \* time.Now().After(checkout.ExpiresAt)
        ELSE IF now > checkout.expires_at
        THEN Respond(r, Resp(400, "Checkout code has expired"))
        ELSE [r EXCEPT !.pc = "gcas_ptr", !.co = checkout]

PurchaseVerify(w, code) ==
    /\ wk[w].pc = "idle"
    /\ \E ok \in RSOutcomes :
         /\ Inject(ok)
         /\ wk' = [wk EXCEPT ![w] = VerifyOutcome(@, code, ok)]
    /\ UNCHANGED <<now, csVars, rsVars>>

\* 7. the switch on purchaseResult.Status, for the statuses other than
\* "success".
RejectedResponse(result) ==
    CASE result.status = "sold_out" ->
           [Resp(409, "Sorry, this item is sold out") EXCEPT !.userPurchases = 0]
      [] result.status = "user_limit_exceeded" ->
           [Resp(409, "Purchase limit exceeded") EXCEPT
               !.userPurchases = result.userPurchases]
      [] result.status = "sale_not_active" ->
           Resp(400, "Sale is not currently active")
      [] OTHER -> Resp(500, "Unknown purchase error")

\* 6. ph.redis.AttemptPurchase(sale.ID, checkout.UserID, checkout.ItemID)
PurchaseAttempt(w) ==
    /\ wk[w].op = "purchase" /\ wk[w].pc = "p_attempt"
    /\ LET saleId == wk[w].sale.id
           userId == wk[w].co.user_id
           r == AtomicPurchaseLua(saleId, userId, InventoryMax, PerUserMax)
           result == AttemptPurchase(saleId, userId)
       IN  /\ AtomicPurchaseEffect(saleId, userId, r)
           /\ wk' = [wk EXCEPT ![w] =
                  IF result.status = "success"
                  THEN [@ EXCEPT !.pc = "p_begin", !.res = result, !.sale = NoSale]
                  ELSE Respond([@ EXCEPT !.res = result], RejectedResponse(result))]
    /\ UNCHANGED <<now, csAvailable, csActive, csCache, rsVars, faults>>

\* completePurchase: ph.db.BeginTransaction
PurchaseBegin(w) ==
    /\ wk[w].op = "purchase" /\ wk[w].pc = "p_begin"
    /\ \E ok \in RSOutcomes :
         /\ Inject(ok)
         /\ wk' = [wk EXCEPT ![w] =
                IF ok THEN [@ EXCEPT !.pc = "p_insert"]
                ELSE Respond(@, Resp(500, "Transaction failed"))]
    /\ UNCHANGED <<now, csVars, rsVars>>

\* completePurchase: ph.db.CreatePurchase
PurchaseInsert(w) ==
    /\ wk[w].op = "purchase" /\ wk[w].pc = "p_insert"
    /\ \E ok \in RSOutcomes :
         /\ Inject(ok)
         /\ IF ok
            THEN /\ CreatePurchase(wk[w].co)
                 /\ wk' = [wk EXCEPT ![w] =
                        [@ EXCEPT !.pc = "p_update",
                                  !.resp = [NoResp EXCEPT
                                      !.purchaseId = Len(rsPurchases) + 1]]]
            ELSE /\ UNCHANGED rsPurchases
                 /\ wk' = [wk EXCEPT ![w] =
                        Respond(@, Resp(500, "Failed to record purchase"))]
    /\ UNCHANGED <<now, csVars, rsSales, rsAttempts>>

\* completePurchase: checkout.Status = "used"; ph.db.UpdateCheckout
PurchaseUpdate(w) ==
    /\ wk[w].op = "purchase" /\ wk[w].pc = "p_update"
    /\ \E ok \in RSOutcomes :
         /\ Inject(ok)
         /\ IF ok
            THEN /\ UpdateCheckout([wk[w].co EXCEPT !.status = "used",
                                                    !.purchased = TRUE])
                 /\ wk' = [wk EXCEPT ![w] = [@ EXCEPT !.pc = "p_commit"]]
            ELSE /\ UNCHANGED rsAttempts
                 /\ wk' = [wk EXCEPT ![w] =
                        Respond(@, Resp(500, "Failed to update checkout"))]
    /\ UNCHANGED <<now, csVars, rsSales, rsPurchases>>

\* completePurchase: tx.Commit (the transaction holds no statement), then
\* the successful response.
PurchaseCommit(w) ==
    /\ wk[w].op = "purchase" /\ wk[w].pc = "p_commit"
    /\ \E ok \in RSOutcomes :
         /\ Inject(ok)
         /\ wk' = [wk EXCEPT ![w] =
                IF ok
                THEN Respond(@, [http |-> 200,
                                 msg |-> "Purchase completed successfully",
                                 userPurchases |-> @.res.userPurchases,
                                 purchaseId |-> @.resp.purchaseId])
                ELSE Respond(@, Resp(500, "Transaction commit failed"))]
    /\ UNCHANGED <<now, csVars, rsVars>>

\* POST /purchase with a checkout code out of codes.
PurchaseOf(w, codes) ==
    \/ \E code \in codes : PurchaseVerify(w, code)
    \/ (wk[w].op = "purchase" /\ GetCurrentActiveSale(w))
    \/ PurchaseAttempt(w)
    \/ PurchaseBegin(w)
    \/ PurchaseInsert(w)
    \/ PurchaseUpdate(w)
    \/ PurchaseCommit(w)

Purchase(w) == PurchaseOf(w, Codes)

(***************************************************************************)
(* CheckoutHandler.processCheckout.                                        *)
(***************************************************************************)
\* ItemServiceImpl.ValidateItemID: the error, EmptyString for none.
ValidateItemID(itemId) ==
    IF itemId = ""
    THEN "item ID cannot be empty"
    ELSE IF IdLen(itemId) < ItemIdMin \/ IdLen(itemId) > ItemIdMax
    THEN "item ID length must be between 3 and 50 characters"
    ELSE IF ~IdCharsValid(itemId)
    THEN "item ID contains invalid characters"
    ELSE EmptyString

\* validateCheckoutRequest: the error, EmptyString for none.
validateCheckoutRequest(userId, itemId) ==
    IF userId = ""
    THEN "user_id is required"
    ELSE IF itemId = ""
    THEN "item_id is required"
    ELSE IF IdLen(userId) < UserIdMin \/ IdLen(userId) > UserIdMax
    THEN "user_id must be between 1 and 100 characters"
    ELSE IF ValidateItemID(itemId) # EmptyString
    THEN "invalid item_id"
    ELSE EmptyString

\* The INSERT into checkout_attempts accepts the values of the attempt:
\* user_id VARCHAR(50), item_id VARCHAR(50).
FitsColumns(co) ==
    /\ IdLen(co.user_id) <= UserIdColumn
    /\ IdLen(co.item_id) <= ItemIdColumn

\* HandleCheckout with a request that passes validateCheckoutRequest:
\* processCheckout starts with GetCurrentActiveSale.
CheckoutStart(w, userId, itemId) ==
    /\ wk[w].pc = "idle"
    /\ wk' = [wk EXCEPT ![w] = [@ EXCEPT !.op = "checkout", !.pc = "gcas_ptr",
                                         !.user = userId, !.item = itemId]]
    /\ UNCHANGED <<now, csVars, rsVars, faults>>

\* Faulty variant: checkout_attempts has no unique index on code.
CheckoutInsert_NoUniqueIndex(w, code) ==
    /\ wk[w].op = "checkout" /\ wk[w].pc = "k_insert"
    /\ \E ok \in RSOutcomes :
         /\ Inject(ok)
         /\ IF ok /\ FitsColumns(wk[w].co)
            THEN /\ rsAttempts' = Append(rsAttempts,
                        [wk[w].co EXCEPT !.id = Len(rsAttempts) + 1, !.code = code])
                 /\ wk' = [wk EXCEPT ![w] =
                        [@ EXCEPT !.pc = "k_cache", !.code = code, !.sale = NoSale,
                                  !.co = [@ EXCEPT !.id = Len(rsAttempts) + 1,
                                                   !.code = code]]]
            ELSE /\ UNCHANGED rsAttempts
                 /\ wk' = [wk EXCEPT ![w] =
                        Respond([@ EXCEPT !.co = NoAttempt],
                                Resp(500, "Unable to process checkout"))]
    /\ UNCHANGED <<now, csVars, rsSales, rsPurchases>>

\* 4.-6. generateCheckoutCode (a random code), ch.db.CreateCheckout; the
\* unique index on code rejects a code that is already there, and the
\* insert fails on a value longer than its column.
CheckoutInsert(w, code) ==
    /\ wk[w].op = "checkout" /\ wk[w].pc = "k_insert"
    /\ \E ok \in RSOutcomes :
         /\ Inject(ok)
         /\ IF /\ ok
               /\ GetCheckoutByCode(code).id = 0
               /\ FitsColumns(wk[w].co)
            THEN /\ rsAttempts' = Append(rsAttempts,
                        [wk[w].co EXCEPT !.id = Len(rsAttempts) + 1, !.code = code])
                 /\ wk' = [wk EXCEPT ![w] =
                        [@ EXCEPT !.pc = "k_cache", !.code = code, !.sale = NoSale,
                                  !.co = [@ EXCEPT !.id = Len(rsAttempts) + 1,
                                                   !.code = code]]]
            ELSE /\ UNCHANGED rsAttempts
                 /\ wk' = [wk EXCEPT ![w] =
                        Respond([@ EXCEPT !.co = NoAttempt],
                                Resp(500, "Unable to process checkout"))]
    /\ UNCHANGED <<now, csVars, rsSales, rsPurchases>>

\* Faulty variant: issuing the code also counts one item as sold.
CheckoutCache_ConsumesInventory(w) ==
    /\ wk[w].op = "checkout" /\ wk[w].pc = "k_cache"
    /\ csCache' = [c \in DOMAIN csCache \cup {wk[w].code} |->
                      IF c = wk[w].code THEN FALSE ELSE csCache[c]]
    /\ csSold' = [csSold EXCEPT ![wk[w].co.sale_id] = Val(@) + 1]
    /\ wk' = [wk EXCEPT ![w] =
                 Respond(@, Resp(200, "Checkout code generated successfully"))]
    /\ UNCHANGED <<now, csAvailable, csUser, csActive, rsVars, faults>>

\* 7.-8. ch.redis.SetCheckoutCode (HMSET checkout:{code} ... used "false"),
\* then the successful response.
CheckoutCache(w) ==
    /\ wk[w].op = "checkout" /\ wk[w].pc = "k_cache"
    /\ csCache' = [c \in DOMAIN csCache \cup {wk[w].code} |->
                      IF c = wk[w].code THEN FALSE ELSE csCache[c]]
    /\ wk' = [wk EXCEPT ![w] =
                 Respond(@, Resp(200, "Checkout code generated successfully"))]
    /\ UNCHANGED <<now, csSold, csAvailable, csUser, csActive, rsVars, faults>>

\* POST /checkout by a user out of users; the code drawn is out of codes.
CheckoutOf(w, users, codes) ==
    \/ \E u \in users, i \in Items : CheckoutStart(w, u, i)
    \/ (wk[w].op = "checkout" /\ GetCurrentActiveSale(w))
    \/ \E code \in codes : CheckoutInsert(w, code)
    \/ CheckoutCache(w)

Checkout(w) == CheckoutOf(w, Users, Codes)

\* HandleCheckout: validateCheckoutRequest, sendErrorResponse with 400 on an
\* error, processCheckout (which starts with GetCurrentActiveSale) otherwise.
HandleCheckout(w, userId, itemId) ==
    /\ wk[w].pc = "idle"
    /\ LET err == validateCheckoutRequest(userId, itemId)
           r == [wk[w] EXCEPT !.op = "checkout", !.user = userId,
                              !.item = itemId]
       IN  wk' = [wk EXCEPT ![w] =
                     IF err # EmptyString
                     THEN Respond(r, Resp(400, err))
                     ELSE [r EXCEPT !.pc = "gcas_ptr"]]
    /\ UNCHANGED <<now, csVars, rsVars, faults>>

\* POST /checkout with any user_id and item_id out of users and items.
CheckoutRequest(w, users, items, codes) ==
    \/ \E u \in users, i \in items : HandleCheckout(w, u, i)
    \/ (wk[w].op = "checkout" /\ GetCurrentActiveSale(w))
    \/ \E code \in codes : CheckoutInsert(w, code)
    \/ CheckoutCache(w)

(***************************************************************************)
(* SaleServiceImpl: CreateHourlySale, ActivateSale, DeactivateSale.        *)
(***************************************************************************)
\* deactivateAllSales, first half (s.db.GetActiveSale): where the caller
\* goes on.  CreateHourlySale only logs an error, ActivateSale returns it.
AfterGetActive(rec, sale, ok, deact, next) ==
    IF ~ok
    THEN IF rec.op = "create" THEN [rec EXCEPT !.pc = next]
         ELSE Respond(rec, Resp(500, "failed to deactivate existing sales"))
    ELSE IF sale.id = 0 THEN [rec EXCEPT !.pc = next]
    ELSE [rec EXCEPT !.pc = deact, !.ptr = sale.id]

\* Faulty variant: the start time is the call's now, not rounded.
CreateStart_NoRounding(w) ==
    /\ wk[w].pc = "idle"
    /\ Len(rsSales) < MaxSales
    /\ \E ok \in RSOutcomes, sale \in GetActiveSale :
         /\ Inject(ok)
         /\ wk' = [wk EXCEPT ![w] =
                AfterGetActive([@ EXCEPT !.op = "create", !.arg = now],
                               sale, ok, "c_deact", "c_insert")]
    /\ UNCHANGED <<now, csVars, rsVars>>

\* CreateHourlySale: startTime = now rounded down to the hour, then
\* deactivateAllSales (s.db.GetActiveSale).
CreateStartAt(w, pc) ==
    /\ wk[w].pc = pc
    /\ Len(rsSales) < MaxSales
    /\ \E ok \in RSOutcomes, sale \in GetActiveSale :
         /\ Inject(ok)
         /\ wk' = [wk EXCEPT ![w] =
                AfterGetActive([@ EXCEPT !.op = "create",
                                         !.arg = now - (now % HourLen)],
                               sale, ok, "c_deact", "c_insert")]
    /\ UNCHANGED <<now, csVars, rsVars>>

\* CreateHourlySale called by a new request.
CreateStart(w) == CreateStartAt(w, "idle")

\* deactivateAllSales, second half: s.db.DeactivateSale(activeSale.ID); in
\* CreateHourlySale a failure is logged and the creation goes on.
CreateDeactivate(w) ==
    /\ wk[w].op = "create" /\ wk[w].pc = "c_deact"
    /\ \E ok \in RSOutcomes :
         /\ Inject(ok)
         /\ IF ok THEN DeactivateSaleRow(wk[w].ptr) ELSE UNCHANGED rsSales
    /\ wk' = [wk EXCEPT ![w] = [@ EXCEPT !.pc = "c_insert", !.ptr = 0]]
    /\ UNCHANGED <<now, csVars, rsAttempts, rsPurchases>>

\* s.db.CreateSale: INSERT INTO sales ... RETURNING id
CreateInsert(w) ==
    /\ wk[w].op = "create" /\ wk[w].pc = "c_insert"
    /\ \E ok \in RSOutcomes :
         /\ Inject(ok)
         /\ IF ok /\ Len(rsSales) < MaxSales
            THEN LET sale == [id |-> Len(rsSales) + 1,
                              start_time |-> wk[w].arg,
                              end_time |-> wk[w].arg + HourLen,
                              items_available |-> InventoryMax,
                              items_sold |-> 0, active |-> TRUE]
                 IN  /\ rsSales' = Append(rsSales, sale)
                     /\ wk' = [wk EXCEPT ![w] =
                                  [@ EXCEPT !.pc = "c_setup", !.sale = sale]]
            ELSE /\ UNCHANGED rsSales
                 /\ wk' = [wk EXCEPT ![w] =
                        Respond(@, Resp(500, "failed to create sale in database"))]
    /\ UNCHANGED <<now, csVars, rsAttempts, rsPurchases>>

\* s.redis.SetupSale(sale.ID, sale.ItemsAvailable); on its failure the
\* rollback comes next.
CreateSetupRun(w) ==
    /\ wk[w].pc = "c_setup"
    /\ \E ok \in CSOutcomes :
         /\ InjectCS(ok)
         /\ IF ok
            THEN /\ SetupSaleLua(wk[w].sale.id, wk[w].sale.items_available)
                 /\ wk' = [wk EXCEPT ![w] =
                        Respond([@ EXCEPT !.arg = wk[w].sale.id],
                                Resp(200, "created"))]
            ELSE /\ UNCHANGED <<csSold, csAvailable, csActive>>
                 /\ wk' = [wk EXCEPT ![w] = [@ EXCEPT !.pc = "c_rollback"]]
    /\ UNCHANGED <<now, csUser, csCache, rsVars>>

\* Faulty variant: the error is returned without the rollback.
CreateRollback_Skip(w) ==
    /\ wk[w].pc = "c_rollback"
    /\ \E ok \in RSOutcomes : Inject(ok)
    /\ wk' = [wk EXCEPT ![w] =
                 Respond([@ EXCEPT !.arg = wk[w].sale.id],
                         Resp(500, "failed to setup sale in Redis"))]
    /\ UNCHANGED <<now, csVars, rsVars>>

\* Rollback: s.db.DeactivateSale(sale.ID), its result is not looked at;
\* then the error is returned.
CreateRollback(w) ==
    /\ wk[w].pc = "c_rollback"
    /\ \E ok \in RSOutcomes :
         /\ Inject(ok)
         /\ IF ok THEN DeactivateSaleRow(wk[w].sale.id) ELSE UNCHANGED rsSales
    /\ wk' = [wk EXCEPT ![w] =
                 Respond([@ EXCEPT !.arg = wk[w].sale.id],
                         Resp(500, "failed to setup sale in Redis"))]
    /\ UNCHANGED <<now, csVars, rsAttempts, rsPurchases>>

CreateSetup(w) ==
    /\ wk[w].op = "create"
    /\ (CreateSetupRun(w) \/ CreateRollback(w))

CreateHourlySale(w) ==
    \/ CreateStart(w)
    \/ CreateDeactivate(w)
    \/ CreateInsert(w)
    \/ CreateSetup(w)

\* ActivateSale(saleID): deactivateAllSales (s.db.GetActiveSale)
ActivateStart(w, saleId) ==
    /\ wk[w].pc = "idle"
    /\ \E ok \in RSOutcomes, sale \in GetActiveSale :
         /\ Inject(ok)
         /\ wk' = [wk EXCEPT ![w] =
                AfterGetActive([@ EXCEPT !.op = "activate", !.arg = saleId],
                               sale, ok, "a_deact", "a_get")]
    /\ UNCHANGED <<now, csVars, rsVars>>

\* deactivateAllSales, second half: a failure makes ActivateSale return.
ActivateDeactivate(w) ==
    /\ wk[w].op = "activate" /\ wk[w].pc = "a_deact"
    /\ \E ok \in RSOutcomes :
         /\ Inject(ok)
         /\ IF ok
            THEN /\ DeactivateSaleRow(wk[w].ptr)
                 /\ wk' = [wk EXCEPT ![w] = [@ EXCEPT !.pc = "a_get", !.ptr = 0]]
            ELSE /\ UNCHANGED rsSales
                 /\ wk' = [wk EXCEPT ![w] =
                        Respond(@, Resp(500, "failed to deactivate existing sales"))]
    /\ UNCHANGED <<now, csVars, rsAttempts, rsPurchases>>

\* s.db.GetSaleByID(saleID)
ActivateGet(w) ==
    /\ wk[w].op = "activate" /\ wk[w].pc = "a_get"
    /\ \E ok \in RSOutcomes :
         /\ Inject(ok)
         /\ wk' = [wk EXCEPT ![w] =
                IF ~ok THEN Respond(@, Resp(500, "failed to get sale"))
                ELSE IF GetSaleByID(@.arg).id = 0
                THEN Respond(@, Resp(500, "sale not found"))
                ELSE [@ EXCEPT !.pc = "a_setup"]]
    /\ UNCHANGED <<now, csVars, rsVars>>

\* s.redis.SetupSale(saleID, sale.ItemsAvailable); no statement sets
\* active = true on the row.
ActivateSetup(w) ==
    /\ wk[w].op = "activate" /\ wk[w].pc = "a_setup"
    /\ \E ok \in CSOutcomes :
         /\ InjectCS(ok)
         /\ IF ok
            THEN /\ SetupSaleLua(wk[w].arg,
                                 GetSaleByID(wk[w].arg).items_available)
                 /\ wk' = [wk EXCEPT ![w] = Respond(@, Resp(200, "activated"))]
            ELSE /\ UNCHANGED <<csSold, csAvailable, csActive>>
                 /\ wk' = [wk EXCEPT ![w] =
                        Respond(@, Resp(500, "failed to setup sale in Redis"))]
    /\ UNCHANGED <<now, csUser, csCache, rsVars>>

ActivateSale(w) ==
    \/ \E id \in SaleIds : ActivateStart(w, id)
    \/ ActivateDeactivate(w)
    \/ ActivateGet(w)
    \/ ActivateSetup(w)

\* DeactivateSale(saleID): s.db.DeactivateSale (an error when no row has
\* the id)
DeactivateStart(w, saleId) ==
    /\ wk[w].pc = "idle"
    /\ \E ok \in RSOutcomes :
         /\ Inject(ok)
         /\ IF ok /\ saleId \in 1..Len(rsSales)
            THEN /\ DeactivateSaleRow(saleId)
                 /\ wk' = [wk EXCEPT ![w] =
                        [@ EXCEPT !.op = "deactivate", !.arg = saleId, !.pc = "d_ptr"]]
            ELSE /\ UNCHANGED rsSales
                 /\ wk' = [wk EXCEPT ![w] =
                        Respond([@ EXCEPT !.op = "deactivate", !.arg = saleId],
                                Resp(500, "failed to deactivate sale in database"))]
    /\ UNCHANGED <<now, csVars, rsAttempts, rsPurchases>>

\* s.redis.GetActiveSaleID and the comparison with saleID
DeactivatePtr(w) ==
    /\ wk[w].op = "deactivate" /\ wk[w].pc = "d_ptr"
    /\ \E ok \in CSOutcomes :
         /\ InjectCS(ok)
         /\ wk' = [wk EXCEPT ![w] =
                IF ok /\ csActive = @.arg THEN [@ EXCEPT !.pc = "d_set"]
                ELSE Respond(@, Resp(200, "deactivated"))]
    /\ UNCHANGED <<now, csVars, rsVars>>

\* s.redis.SetActiveSaleID(0)
DeactivateSet(w) ==
    /\ wk[w].op = "deactivate" /\ wk[w].pc = "d_set"
    /\ \E ok \in CSOutcomes :
         /\ InjectCS(ok)
         /\ csActive' = IF ok THEN 0 ELSE csActive
    /\ wk' = [wk EXCEPT ![w] = Respond(@, Resp(200, "deactivated"))]
    /\ UNCHANGED <<now, csSold, csAvailable, csUser, csCache, rsVars>>

DeactivateSale(w) ==
    \/ \E id \in SaleIds : DeactivateStart(w, id)
    \/ DeactivatePtr(w)
    \/ DeactivateSet(w)

\* The wall clock advances.
Tick ==
    /\ now < MaxTime
    /\ now' = now + 1
    /\ UNCHANGED <<csVars, rsVars, wk, faults>>

Init ==
    /\ now = 0
    /\ csSold = [s \in SaleIds |-> NoKey]
    /\ csAvailable = [s \in SaleIds |-> NoKey]
    /\ csUser = [k \in Users \X SaleIds |-> NoKey]
    /\ csActive = 0
    /\ csCache = <<>>
    /\ rsSales = <<>>
    /\ rsAttempts = <<>>
    /\ rsPurchases = <<>>
    /\ wk = [w \in Workers |-> IdleWorker]
    /\ faults = RSFaults(0)

NextCS ==
    \/ \E c \in CSCallers, s \in SaleIds, u \in Users :
           CallAtomicPurchase(c, s, u)
    \/ \E c \in CSCallers : RunAtomicPurchase(c)

SpecCS == Init /\ [][NextCS]_vars

(***************************************************************************)
(* A running sale.  The state the program is in after, from the empty      *)
(* stores at time 0, CreateHourlySale has created and set up sale 1 and    *)
(* four Checkout calls (two of u1, one of u2, one of u3) have returned.    *)
(***************************************************************************)
Sale1 ==
    [id |-> 1, start_time |-> 0, end_time |-> HourLen,
     items_available |-> InventoryMax, items_sold |-> 0, active |-> TRUE]

IssuedAttempt(i, userId, code) ==
    [id |-> i, sale_id |-> 1, user_id |-> userId, item_id |-> "item_a",
     code |-> code, status |-> "pending", expires_at |-> CodeTTL,
     purchased |-> FALSE]

IssuedCodes == <<"CHK_a", "CHK_b", "CHK_c", "CHK_d">>
IssuedUsers == <<"u1", "u1", "u2", "u3">>

InitRunning ==
    /\ now = 0
    /\ csSold = [s \in SaleIds |-> IF s = 1 THEN 0 ELSE NoKey]
    /\ csAvailable = [s \in SaleIds |-> IF s = 1 THEN InventoryMax ELSE NoKey]
    /\ csUser = [k \in Users \X SaleIds |-> NoKey]
    /\ csActive = 1
    /\ csCache = [c \in {IssuedCodes[i] : i \in 1..4} |-> FALSE]
    /\ rsSales = <<Sale1>>
    /\ rsAttempts = [i \in 1..4 |-> IssuedAttempt(i, IssuedUsers[i], IssuedCodes[i])]
    /\ rsPurchases = <<>>
    /\ wk = [w \in Workers |-> IdleWorker]

(***************************************************************************)
(* Purchases against the running sale, with record-store failures.         *)
(***************************************************************************)
InitPurchase == InitRunning /\ faults = RSFaults(MaxFailures)

NextPurchase ==
    \E w \in {"p1", "p2", "p3"} : PurchaseOf(w, {"CHK_a", "CHK_b", "CHK_c"})

SpecPurchase == InitPurchase /\ [][NextPurchase]_vars

(***************************************************************************)
(* Purchases against the running sale while the clock runs past the        *)
(* expiry of the codes.                                                    *)
(***************************************************************************)
NextExpiry ==
    \/ \E w \in {"p1", "p2"} : Purchase(w)
    \/ Tick

SpecExpiry == InitPurchase /\ [][NextExpiry]_vars

(***************************************************************************)
(* Checkouts and purchases while the sale lifecycle operations run.  The   *)
(* initial state is the running sale after u1 has bought with CHK_a and    *)
(* with CHK_b: Purchase(CHK_a) and Purchase(CHK_b) ran concurrently (both  *)
(* had loaded the sale before either was counted) and returned success.    *)
(***************************************************************************)
InitLifecycle ==
    /\ now = 0
    /\ csSold = [s \in SaleIds |-> IF s = 1 THEN 2 ELSE NoKey]
    /\ csAvailable = [s \in SaleIds |-> IF s = 1 THEN InventoryMax ELSE NoKey]
    /\ csUser = [k \in Users \X SaleIds |-> IF k = <<"u1", 1>> THEN 2 ELSE NoKey]
    /\ csActive = 1
    /\ csCache = [c \in {IssuedCodes[i] : i \in 1..4} |-> FALSE]
    /\ rsSales = <<Sale1>>
    /\ rsAttempts = [i \in 1..4 |->
          IF i \in {1, 2}
          THEN [IssuedAttempt(i, IssuedUsers[i], IssuedCodes[i])
                   EXCEPT !.status = "used", !.purchased = TRUE]
          ELSE IssuedAttempt(i, IssuedUsers[i], IssuedCodes[i])]
    /\ rsPurchases = [i \in 1..2 |->
          [id |-> i, sale_id |-> 1, user_id |-> "u1", item_id |-> "item_a",
           code |-> EmptyString, checkout_id |-> i, status |-> "completed"]]
    /\ wk = [w \in Workers |-> IdleWorker]
    /\ faults = RSFaults(0)

Next ==
    \/ \E w \in {"s1"} : CreateHourlySale(w)
    \/ \E w \in {"s1"} : ActivateSale(w)
    \/ \E w \in {"s1"} : DeactivateSale(w)
    \/ \E w \in {"k1"} : Checkout(w)
    \/ \E w \in {"p1", "p2"} : Purchase(w)

Spec == InitLifecycle /\ [][Next]_vars

(***************************************************************************)
(* Properties of the counter store under concurrent AtomicPurchase calls   *)
(* (SpecCS).                                                               *)
(***************************************************************************)
Returned(c) == wk[c].op = "atomic" /\ wk[c].pc = "done"

SuccessCallers(s) ==
    {c \in CSCallers : Returned(c) /\ wk[c].arg = s /\ wk[c].res.status = "success"}

\* C1: for any interleaving of concurrent AtomicPurchase calls on one sale
\* with limit max_items, the sold value of the sale never exceeds max_items,
\* neither in the counter store nor in the value a caller is handed back.
C1_SoldNeverExceedsMax ==
    /\ \A s \in SaleIds : Val(csSold[s]) <= InventoryMax
    /\ \A c \in CSCallers : Returned(c) => wk[c].res.totalSold <= InventoryMax

\* The sale is full and one more caller on it was turned away.
C1_Witness ==
    \E s \in SaleIds :
       /\ Val(csSold[s]) = InventoryMax
       /\ \E c \in CSCallers :
             /\ Returned(c) /\ wk[c].arg = s
             /\ wk[c].res.status = "sale_sold_out"

\* C2: once all N concurrent AtomicPurchase callers have returned, the sold
\* counter of each sale equals the number of callers on that sale that
\* returned success.
C2_SoldEqualsSuccessCount ==
    (\A c \in CSCallers : Returned(c)) =>
        \A s \in SaleIds : Val(csSold[s]) = Cardinality(SuccessCallers(s))

\* All callers have returned, on one sale some with success and some without.
C2_Witness ==
    /\ \A c \in CSCallers : Returned(c)
    /\ \E s \in SaleIds :
          /\ Cardinality(SuccessCallers(s)) >= 2
          /\ \E c \in CSCallers : wk[c].arg = s /\ wk[c].res.status # "success"

(***************************************************************************)
(* Properties of the purchase flow.                                        *)
(***************************************************************************)
PurchaseRows(s) == {i \in DOMAIN rsPurchases : rsPurchases[i].sale_id = s}

RowsOfAttempt(id) == {i \in DOMAIN rsPurchases : rsPurchases[i].checkout_id = id}

Finished(w) == wk[w].op = "purchase" /\ wk[w].pc = "done"

Succeeded(w) == Finished(w) /\ wk[w].resp.http = 200

\* The Purchase calls that returned success for codes bound to (u, s).
SuccessFor(u, s) ==
    {w \in PurchaseWorkers :
        Succeeded(w) /\ wk[w].co.user_id = u /\ wk[w].co.sale_id = s}

\* The Purchase calls on code c that returned success.
SuccessOn(c) == {w \in PurchaseWorkers : Succeeded(w) /\ wk[w].code = c}

\* The responses of a finalization that failed after AtomicPurchase
\* succeeded.
FinalizationErrors ==
    {"Transaction failed", "Failed to record purchase",
     "Failed to update checkout", "Transaction commit failed"}

\* C3: after any interleaving of Checkout, Purchase, CreateHourlySale,
\* ActivateSale and DeactivateSale, the number of purchase rows of any
\* single sale is at most INVENTORY_MAX.
C3_RowsWithinInventory ==
    \A s \in SaleIds : Cardinality(PurchaseRows(s)) <= InventoryMax

\* C4: for any user U and sale S, over any interleaving of Purchase calls,
\* at most PER_USER_MAX Purchase calls return success for codes bound to
\* (U, S).
C4_UserSuccessesWithinLimit ==
    \A u \in Users : \A s \in SaleIds :
        Cardinality(SuccessFor(u, s)) <= PerUserMax

\* A user has PER_USER_MAX successes on the sale and one more Purchase of
\* that user was refused with the limit response.
C4_Witness ==
    \E u \in Users : \E s \in SaleIds :
       /\ Cardinality(SuccessFor(u, s)) = PerUserMax
       /\ \E w \in PurchaseWorkers :
             /\ Finished(w) /\ wk[w].co.user_id = u /\ wk[w].co.sale_id = s
             /\ wk[w].resp.http = 409
             /\ wk[w].resp.msg = "Purchase limit exceeded"

\* C5: for any checkout code C, at most one Purchase(C) call ever returns
\* success (concurrent calls on a pending, unexpired C: one success, every
\* other one ALREADY_USED).
C5_OneSuccessPerCode ==
    \A c \in Codes : Cardinality(SuccessOn(c)) <= 1

\* C6: once all concurrent Purchase calls against the sale have returned
\* (finalization failures included), the sold counter of the sale equals the
\* number of calls that returned success, and so does the number of
\* purchase rows of the sale.
C6_CountersAgreeAtQuiescence ==
    (\A w \in {"p1", "p2", "p3"} : Finished(w)) =>
        \A s \in SaleIds :
           LET n == Cardinality({w \in PurchaseWorkers :
                                    Succeeded(w) /\ wk[w].co.sale_id = s})
           IN  /\ Val(csSold[s]) = n
               /\ Cardinality(PurchaseRows(s)) = n

\* C7: when a record-store step of the finalization fails after
\* AtomicPurchase succeeded, the step that returns the internal error also
\* decrements the sale's sold counter and the user's per-sale counter.
C7_FailureCompensates ==
    [][\A w \in PurchaseWorkers :
          (/\ wk[w].op = "purchase"
           /\ wk[w].pc \in {"p_begin", "p_insert", "p_update", "p_commit"}
           /\ wk'[w].pc = "done"
           /\ wk'[w].resp.http = 500)
          => LET s == wk[w].co.sale_id
                 k == <<wk[w].co.user_id, wk[w].co.sale_id>>
             IN  /\ Val(csSold'[s]) = Val(csSold[s]) - 1
                 /\ Val(csUser'[k]) = Val(csUser[k]) - 1]_vars

\* C8: if Purchase returned an error because the purchase insert, the
\* attempt update or the commit failed, no purchase row of that attempt
\* exists and the attempt is still pending with purchased = false.
C8_FinalizationAllOrNothing ==
    \A w \in PurchaseWorkers :
        (/\ Finished(w)
         /\ wk[w].resp.http = 500
         /\ wk[w].resp.msg \in FinalizationErrors \ {"Transaction failed"})
        => /\ RowsOfAttempt(wk[w].co.id) = {}
           /\ rsAttempts[wk[w].co.id].status = "pending"
           /\ ~rsAttempts[wk[w].co.id].purchased

\* C9: purchase rows and consumed attempts correspond one to one by code:
\* every used attempt has exactly one purchase row carrying its code, and
\* every purchase row carries the code of exactly one used attempt.
C9_RowsMatchUsedCodes ==
    /\ \A i \in DOMAIN rsAttempts :
          rsAttempts[i].status = "used" =>
             Cardinality({j \in DOMAIN rsPurchases :
                             rsPurchases[j].code = rsAttempts[i].code}) = 1
    /\ \A j \in DOMAIN rsPurchases :
          Cardinality({i \in DOMAIN rsAttempts :
                          /\ rsAttempts[i].status = "used"
                          /\ rsAttempts[i].code = rsPurchases[j].code}) = 1

(***************************************************************************)
(* Expiry of checkout codes (SpecExpiry).                                  *)
(***************************************************************************)
\* Worker w starts Purchase on the code of attempt row i in this step.
Invokes(w, i) ==
    /\ wk[w].pc = "idle"
    /\ wk'[w].op = "purchase"
    /\ wk'[w].code = rsAttempts[i].code

\* The call returned EXPIRED in this step and left the counters alone.
ReturnsExpired(w) ==
    /\ wk'[w].pc = "done"
    /\ wk'[w].resp.http = 400
    /\ wk'[w].resp.msg = "Checkout code has expired"
    /\ csSold' = csSold /\ csUser' = csUser

\* C10 as stated: for any code C with expires_at = T, any Purchase(C)
\* invoked with now > T returns EXPIRED and performs no AtomicPurchase.
C10_ExpiredCodeAlwaysExpired ==
    [][\A w \in PurchaseWorkers : \A i \in DOMAIN rsAttempts :
          (Invokes(w, i) /\ now > rsAttempts[i].expires_at)
             => ReturnsExpired(w)]_vars

\* C10, amended: for any code C with expires_at = T whose attempt is still
\* pending, any Purchase(C) invoked with now > T that reads the attempt
\* returns EXPIRED and performs no AtomicPurchase.
C10_PendingExpiredCodeExpired ==
    [][\A w \in PurchaseWorkers : \A i \in DOMAIN rsAttempts :
          (/\ Invokes(w, i)
           /\ now > rsAttempts[i].expires_at
           /\ rsAttempts[i].status = "pending"
           /\ faults' = faults)
             => ReturnsExpired(w)]_vars

\* A Purchase on a pending code returned EXPIRED after the code's expiry,
\* and nothing was sold.
C10_Witness ==
    \E w \in PurchaseWorkers : \E i \in DOMAIN rsAttempts :
       /\ Finished(w) /\ wk[w].code = rsAttempts[i].code
       /\ rsAttempts[i].status = "pending"
       /\ now > rsAttempts[i].expires_at
       /\ wk[w].resp.http = 400
       /\ wk[w].resp.msg = "Checkout code has expired"
       /\ \A s \in SaleIds : Val(csSold[s]) = 0

(***************************************************************************)
(* The code pre-check of Purchase (SpecExpiry).                            *)
(***************************************************************************)
PreCheckMessages ==
    {"Invalid or expired checkout code", "Checkout code has already been used",
     "Checkout code has expired"}

\* The call of w returned in its first step, at the code pre-check.
RejectedAtPreCheck(w) == wk[w].pc = "idle" /\ wk'[w].pc = "done"

\* C11: a Purchase rejected at the code pre-check (unknown code ->
\* INVALID_CODE, attempt not pending -> ALREADY_USED, expired -> EXPIRED)
\* answers HTTP 400 and leaves the sold and per-user counters and all rows
\* of the record store unchanged; a Purchase(C) that reads C's attempt as
\* used, as after a successful Purchase(C), returns ALREADY_USED.
C11_PreCheckRejectionChangesNothing ==
    [][\A w \in PurchaseWorkers :
          /\ RejectedAtPreCheck(w) =>
                /\ wk'[w].resp.http = 400
                /\ wk'[w].resp.msg \in PreCheckMessages
                /\ csSold' = csSold /\ csUser' = csUser
                /\ rsSales' = rsSales /\ rsAttempts' = rsAttempts
                /\ rsPurchases' = rsPurchases
          /\ (/\ wk[w].pc = "idle" /\ wk'[w].op = "purchase"
              /\ GetCheckoutByCode(wk'[w].code).id = 0)
                => /\ RejectedAtPreCheck(w)
                   /\ wk'[w].resp.msg = "Invalid or expired checkout code"
          /\ \A i \in DOMAIN rsAttempts :
                (/\ Invokes(w, i) /\ faults' = faults
                 /\ (rsAttempts[i].status # "pending" \/ rsAttempts[i].purchased))
                => /\ RejectedAtPreCheck(w)
                   /\ wk'[w].resp.msg = "Checkout code has already been used"]_vars

\* Purchase(C) succeeded, another Purchase(C) got ALREADY_USED, and one item
\* is sold.
C11_Witness ==
    \E w1, w2 \in PurchaseWorkers :
       /\ w1 # w2 /\ Succeeded(w1)
       /\ Finished(w2) /\ wk[w2].code = wk[w1].code
       /\ wk[w2].resp.http = 400
       /\ wk[w2].resp.msg = "Checkout code has already been used"
       /\ Val(csSold[1]) = 1
       /\ Len(rsPurchases) = 1

(***************************************************************************)
(* The outcomes of the atomic decision in Purchase.                        *)
(***************************************************************************)
\* C12: when the atomic decision reports the inventory of the sale as
\* exhausted (sold >= max_items), Purchase returns SOLD_OUT with HTTP 409.
C12_SoldOutReturns409 ==
    \A w \in PurchaseWorkers :
        (Finished(w) /\ wk[w].res.status = "sale_sold_out")
           => wk[w].resp.http = 409

\* A user at the per-user limit: the state of InitLifecycle, but with CHK_c
\* issued to u1 (a third Checkout of u1) and CHK_d to u2.
InitAtLimit ==
    /\ now = 0
    /\ csSold = [s \in SaleIds |-> IF s = 1 THEN 2 ELSE NoKey]
    /\ csAvailable = [s \in SaleIds |-> IF s = 1 THEN InventoryMax ELSE NoKey]
    /\ csUser = [k \in Users \X SaleIds |-> IF k = <<"u1", 1>> THEN 2 ELSE NoKey]
    /\ csActive = 1
    /\ csCache = [c \in {IssuedCodes[i] : i \in 1..4} |-> FALSE]
    /\ rsSales = <<Sale1>>
    /\ rsAttempts = [i \in 1..4 |->
          IF i \in {1, 2}
          THEN [IssuedAttempt(i, "u1", IssuedCodes[i])
                   EXCEPT !.status = "used", !.purchased = TRUE]
          ELSE IssuedAttempt(i, IF i = 3 THEN "u1" ELSE "u2", IssuedCodes[i])]
    /\ rsPurchases = [i \in 1..2 |->
          [id |-> i, sale_id |-> 1, user_id |-> "u1", item_id |-> "item_a",
           code |-> EmptyString, checkout_id |-> i, status |-> "completed"]]
    /\ wk = [w \in Workers |-> IdleWorker]
    /\ faults = RSFaults(MaxFailures)

NextAtLimit ==
    \E w \in {"p1", "p2"} : PurchaseOf(w, {"CHK_c", "CHK_d"})

SpecAtLimit == InitAtLimit /\ [][NextAtLimit]_vars

\* Worker w takes the step of the atomic decision.
Decides(w) ==
    wk[w].op = "purchase" /\ wk[w].pc = "p_attempt" /\ wk'[w] # wk[w]

InitSwitched ==
    /\ now = 0
    /\ csSold = [s \in SaleIds |-> IF s \in {1, 2} THEN 0 ELSE NoKey]
    /\ csAvailable = [s \in SaleIds |-> IF s \in {1, 2} THEN InventoryMax ELSE NoKey]
    /\ csUser = [k \in Users \X SaleIds |-> NoKey]
    /\ csActive = 2
    /\ csCache = [c \in {IssuedCodes[i] : i \in 1..4} |-> FALSE]
    /\ rsSales = <<[Sale1 EXCEPT !.active = FALSE], [Sale1 EXCEPT !.id = 2]>>
    /\ rsAttempts = [i \in 1..4 |->
          [IssuedAttempt(i, IssuedUsers[i], IssuedCodes[i])
              EXCEPT !.sale_id = IF i = 4 THEN 2 ELSE 1]]
    /\ rsPurchases = <<>>
    /\ wk = [w \in Workers |-> IdleWorker]
    /\ faults = RSFaults(MaxFailures)

NextSwitched ==
    \/ \E w \in {"p1", "p2"} : PurchaseOf(w, {"CHK_a", "CHK_d"})
    \/ \E w \in {"s1"} : DeactivateSale(w)

SpecSwitched == InitSwitched /\ [][NextSwitched]_vars

GcasPcs == {"gcas_ptr", "gcas_row", "gcas_sync", "gcas_syncw", "gcas_db", "gcas_set"}

\* Worker w, serving a Purchase, takes a step.
Moves(w) == wk'[w].op = "purchase" /\ wk'[w] # wk[w]

\* The call of w returns SALE_NOT_ACTIVE in this step.
ReturnsSaleNotActive(w) ==
    /\ wk'[w].pc = "done"
    /\ wk'[w].resp.http = 400
    /\ wk'[w].resp.msg = "Sale is no longer active"

\* Purchase goes past the sale check only with a sale that is the attempt's,
\* and is turned away when the fallback query finds no active sale.
SaleCheckDecides(w) ==
    /\ (Moves(w) /\ wk[w].pc \in GcasPcs /\ wk'[w].pc \notin GcasPcs)
          => \/ ReturnsSaleNotActive(w)
             \/ /\ wk'[w].pc = "p_attempt"
                /\ wk'[w].sale.id # 0
                /\ wk'[w].sale.id = wk[w].co.sale_id
    /\ (/\ Moves(w) /\ wk[w].pc = "gcas_db"
        /\ \A i \in DOMAIN rsSales : ~rsSales[i].active)
          => ReturnsSaleNotActive(w)

InitSaleEnd ==
    /\ now = HourLen
    /\ csSold = [s \in SaleIds |-> IF s = 1 THEN 0 ELSE NoKey]
    /\ csAvailable = [s \in SaleIds |-> IF s = 1 THEN InventoryMax ELSE NoKey]
    /\ csUser = [k \in Users \X SaleIds |-> NoKey]
    /\ csActive = 1
    /\ csCache = [c \in {IssuedCodes[i] : i \in 1..4} |-> FALSE]
    /\ rsSales = <<Sale1>>
    /\ rsAttempts = [i \in 1..4 |->
          [IssuedAttempt(i, IssuedUsers[i], IssuedCodes[i])
              EXCEPT !.expires_at = HourLen - 1 + CodeTTL]]
    /\ rsPurchases = <<>>
    /\ wk = [w \in Workers |-> IdleWorker]
    /\ faults = RSFaults(MaxFailures)

NextSaleEnd ==
    \E w \in {"p1", "p2"} : PurchaseOf(w, {"CHK_a", "CHK_c"})

SpecSaleEnd == InitSaleEnd /\ [][NextSaleEnd]_vars

\* C15: when the end time of the attempt's sale has elapsed (now >= end)
\* while the row is still active, Purchase of a pending, unexpired code of
\* the sale returns SALE_NOT_ACTIVE and increments no counter.
C15_ElapsedSaleRejects ==
    \A s \in DOMAIN rsSales :
        (rsSales[s].active /\ now >= rsSales[s].end_time)
        => /\ Val(csSold[s]) = 0
           /\ \A u \in Users : Val(csUser[<<u, s>>]) = 0
           /\ \A w \in PurchaseWorkers :
                 (Finished(w) /\ wk[w].co.sale_id = s)
                 => /\ wk[w].resp.http = 400
                    /\ wk[w].resp.msg = "Sale is no longer active"

(***************************************************************************)
(* The sale lifecycle operations on their own, from the empty stores: two  *)
(* callers (the background sale manager and an operator), with             *)
(* record-store failures.                                                  *)
(***************************************************************************)
InitSales ==
    /\ now = 0
    /\ csSold = [s \in SaleIds |-> NoKey]
    /\ csAvailable = [s \in SaleIds |-> NoKey]
    /\ csUser = [k \in Users \X SaleIds |-> NoKey]
    /\ csActive = 0
    /\ csCache = << >>
    /\ rsSales = << >>
    /\ rsAttempts = << >>
    /\ rsPurchases = << >>
    /\ wk = [w \in Workers |-> IdleWorker]
    /\ faults = RSFaults(MaxFailures)

NextSales ==
    \/ \E w \in SaleWorkers : CreateHourlySale(w)
    \/ \E w \in SaleWorkers : ActivateSale(w)
    \/ \E w \in SaleWorkers : DeactivateSale(w)

SpecSales == InitSales /\ [][NextSales]_vars

ActiveRows == {i \in DOMAIN rsSales : rsSales[i].active}

\* A CreateHourlySale call has completed.
CreateCompleted(w) ==
    wk[w].op = "create" /\ wk[w].pc = "done" /\ wk[w].resp.http = 200

\* C16: at any moment after a CreateHourlySale call completes, the record
\* store holds exactly one sale row with active = true, for any number of
\* earlier CreateHourlySale calls, sequential or concurrent (no other
\* lifecycle call and no store failure involved).
C16_OneActiveAfterCreate ==
    (/\ \A w \in SaleWorkers : wk[w].op \in {"none", "create"}
     /\ \A w \in SaleWorkers : wk[w].pc \in {"idle", "done"}
     /\ faults = RSFaults(MaxFailures)
     /\ \E w \in SaleWorkers : CreateCompleted(w))
    => Cardinality(ActiveRows) = 1

\* C17: in every reachable state, under any interleaving of
\* CreateHourlySale, ActivateSale and DeactivateSale calls (a failed,
\* logged deactivation of the previous sale included), at most one sale row
\* has active = true.
C17_AtMostOneActive == Cardinality(ActiveRows) <= 1

(***************************************************************************)
(* SetupSale and AtomicPurchase called directly on the counter store.      *)
(***************************************************************************)
\* A caller invokes RedisClient.SetupSale(saleID, itemsAvailable).
CallSetupSale(c, saleId, itemsAvailable) ==
    /\ wk[c].pc = "idle"
    /\ wk' = [wk EXCEPT ![c] = [@ EXCEPT !.op = "setup", !.pc = "called",
                                         !.arg = saleId,
                                         !.items = itemsAvailable]]
    /\ UNCHANGED <<now, csVars, rsVars, faults>>

\* The script runs (indivisibly).
RunSetupSale(c) ==
    /\ wk[c].op = "setup" /\ wk[c].pc = "called"
    /\ SetupSaleLua(wk[c].arg, wk[c].items)
    /\ wk' = [wk EXCEPT ![c] = [@ EXCEPT !.pc = "done"]]
    /\ UNCHANGED <<now, csUser, csCache, rsVars, faults>>

NextSetup ==
    \/ \E c \in {"c1", "c2"}, s \in SaleIds, u \in {"u1", "u2"} :
           CallAtomicPurchase(c, s, u)
    \/ \E c \in {"c1", "c2"} : RunAtomicPurchase(c)
    \/ \E c \in {"c3", "c4"}, s \in SaleIds, i \in 1..InventoryMax :
           CallSetupSale(c, s, i)
    \/ \E c \in {"c3", "c4"} : RunSetupSale(c)

SpecSetup == Init /\ [][NextSetup]_vars

\* The counter state Setup(saleId, itemsAvailable) leaves.
IsSetUp(sold, available, active, saleId, itemsAvailable) ==
    /\ sold[saleId] = 0
    /\ available[saleId] = itemsAvailable
    /\ active = saleId

\* C18: Setup(sale_id, I) leaves sold:{sale_id} = 0, available:{sale_id} = I
\* and the active-sale pointer = sale_id, and touches nothing else; run
\* again on the state it left (no purchase in between) it changes nothing.
C18_SetupIdempotent ==
    [][\A c \in CSCallers :
          (wk[c].op = "setup" /\ wk[c].pc = "called" /\ wk'[c].pc = "done")
          => LET s == wk[c].arg
                 i == wk[c].items
             IN  /\ IsSetUp(csSold', csAvailable', csActive', s, i)
                 /\ \A t \in SaleIds \ {s} :
                       /\ csSold'[t] = csSold[t]
                       /\ csAvailable'[t] = csAvailable[t]
                 /\ csUser' = csUser
                 /\ IsSetUp(csSold, csAvailable, csActive, s, i)
                       => /\ csSold' = csSold
                          /\ csAvailable' = csAvailable
                          /\ csActive' = csActive]_vars

\* Setup(s, I) ran twice, and purchases were counted before the setups.
C18_Witness ==
    /\ wk["c3"].op = "setup" /\ wk["c3"].pc = "done"
    /\ wk["c4"].op = "setup" /\ wk["c4"].pc = "done"
    /\ wk["c3"].arg = wk["c4"].arg /\ wk["c3"].items = wk["c4"].items
    /\ IsSetUp(csSold, csAvailable, csActive, wk["c3"].arg, wk["c3"].items)
    /\ \E c \in {"c1", "c2"} :
          /\ Returned(c) /\ wk[c].res.status = "success"
          /\ wk[c].arg = wk["c3"].arg

(***************************************************************************)
(* AtomicPurchase called with limits of the caller's choice.               *)
(***************************************************************************)
\* A caller issues AtomicPurchase(saleId, userId, maxItems, maxUserItems).
CallAtomicPurchaseLimits(c, saleId, userId, maxItems, maxUserItems) ==
    /\ wk[c].pc = "idle"
    /\ wk' = [wk EXCEPT ![c] = [@ EXCEPT !.op = "atomic_limits",
                                         !.pc = "called",
                                         !.arg = saleId, !.user = userId,
                                         !.max_items = maxItems,
                                         !.max_user_items = maxUserItems]]
    /\ UNCHANGED <<now, csVars, rsVars, faults>>

\* The script runs (indivisibly); RedisClient.AtomicPurchase hands the four
\* reply fields back unchanged.
RunAtomicPurchaseLimits(c) ==
    /\ wk[c].op = "atomic_limits" /\ wk[c].pc = "called"
    /\ LET r == AtomicPurchaseLua(wk[c].arg, wk[c].user, wk[c].max_items,
                                  wk[c].max_user_items)
       IN  /\ AtomicPurchaseEffect(wk[c].arg, wk[c].user, r)
           /\ wk' = [wk EXCEPT ![c] = [@ EXCEPT !.pc = "done", !.res = r]]
    /\ UNCHANGED <<now, csAvailable, csActive, csCache, rsVars, faults>>

NextLimits ==
    \/ \E c \in {"c1", "c2", "c3"}, s \in {1, MaxSales}, u \in {"u1", "u2"},
          mi \in 1..InventoryMax, mu \in 1..PerUserMax :
           CallAtomicPurchaseLimits(c, s, u, mi, mu)
    \/ \E c \in {"c1", "c2", "c3"} : RunAtomicPurchaseLimits(c)

SpecLimits == Init /\ [][NextLimits]_vars

\* One run of the script by caller c.
RunsScript(c) ==
    wk[c].op = "atomic_limits" /\ wk[c].pc = "called" /\ wk'[c].pc = "done"

\* C19: AtomicPurchase is the reference decision.  With sold and user_count
\* the two keys before the call (an absent key counting as 0): sold >=
\* max_items gives (sale_sold_out, sold, user_count) and no change, also
\* when the user limit is reached too; otherwise user_count >=
\* max_user_items gives (user_limit_exceeded, sold, user_count) and no
\* change; otherwise both keys grow by exactly one and the reply is
\* (success, sold + 1, user_count + 1).  No other key changes.
C19_AtomicPurchaseIsReference ==
    [][\A c \in CSCallers :
          RunsScript(c)
          => LET s == wk[c].arg
                 k == <<wk[c].user, wk[c].arg>>
                 sold == IF csSold[s] = NoKey THEN 0 ELSE csSold[s]
                 user_count == IF csUser[k] = NoKey THEN 0 ELSE csUser[k]
                 r == wk'[c].res
             IN  /\ sold >= wk[c].max_items
                    => /\ r = [success |-> FALSE, message |-> "sale_sold_out",
                               sold |-> sold, userCount |-> user_count]
                       /\ csVars' = csVars
                 /\ (sold < wk[c].max_items
                       /\ user_count >= wk[c].max_user_items)
                    => /\ r = [success |-> FALSE,
                               message |-> "user_limit_exceeded",
                               sold |-> sold, userCount |-> user_count]
                       /\ csVars' = csVars
                 /\ (sold < wk[c].max_items
                       /\ user_count < wk[c].max_user_items)
                    => /\ r = [success |-> TRUE, message |-> "success",
                               sold |-> sold + 1,
                               userCount |-> user_count + 1]
                       /\ csSold' = [csSold EXCEPT ![s] = sold + 1]
                       /\ csUser' = [csUser EXCEPT ![k] = user_count + 1]
                       /\ UNCHANGED <<csAvailable, csActive, csCache>>]_vars

\* The three outcomes have happened: a success on absent keys, a user-limit
\* refusal, and a sold-out reply while the user's limit was reached too.
C19_Witness ==
    /\ wk["c1"].pc = "done" /\ wk["c1"].res.success
    /\ wk["c1"].res.sold = 1 /\ wk["c1"].res.userCount = 1
    /\ wk["c2"].pc = "done"
    /\ wk["c2"].res.message = "user_limit_exceeded"
    /\ wk["c2"].res.sold < wk["c2"].max_items
    /\ wk["c3"].pc = "done"
    /\ wk["c3"].res.message = "sale_sold_out"
    /\ wk["c3"].res.userCount >= wk["c3"].max_user_items

(***************************************************************************)
(* Checkouts against a sale that has just been created and set up, with    *)
(* record-store failures, the clock advancing and the sale being switched. *)
(***************************************************************************)
InitCheckout ==
    /\ now = 0
    /\ csSold = [s \in SaleIds |-> IF s = 1 THEN 0 ELSE NoKey]
    /\ csAvailable = [s \in SaleIds |-> IF s = 1 THEN InventoryMax ELSE NoKey]
    /\ csUser = [k \in Users \X SaleIds |-> NoKey]
    /\ csActive = 1
    /\ csCache = << >>
    /\ rsSales = <<Sale1>>
    /\ rsAttempts = << >>
    /\ rsPurchases = << >>
    /\ wk = [w \in Workers |-> IdleWorker]
    /\ faults = RSFaults(MaxFailures)

NextCheckout ==
    \/ \E w \in CheckoutWorkers :
          CheckoutOf(w, {"u1", "u2"}, {"CHK_a", "CHK_b"})
    \/ \E w \in {"s1"} : CreateHourlySale(w)
    \/ \E w \in {"s1"} : DeactivateSale(w)
    \/ Tick

SpecCheckout == InitCheckout /\ [][NextCheckout]_vars

\* Checkout call w has returned success.
CheckoutSucceeded(w) ==
    wk[w].op = "checkout" /\ wk[w].pc = "done" /\ wk[w].resp.http = 200

\* The attempt rows that carry the code of call w.
RowsOfCheckout(w) ==
    {i \in DOMAIN rsAttempts : rsAttempts[i].code = wk[w].code}

\* The successful calls have pairwise distinct codes, and once no call is
\* under way there are as many attempt rows as successful calls.
DistinctCodes ==
    /\ \A w1, w2 \in CheckoutWorkers :
          (w1 # w2 /\ CheckoutSucceeded(w1) /\ CheckoutSucceeded(w2))
          => wk[w1].code # wk[w2].code
    /\ (\A w \in CheckoutWorkers : wk[w].pc \in {"idle", "done"})
          => Len(rsAttempts)
                = Cardinality({w \in CheckoutWorkers : CheckoutSucceeded(w)})

\* C20: a Checkout call that returns success has inserted exactly one
\* attempt row, with the returned code, the caller's user_id and item_id, the
\* id of the sale the call found active, status pending and expires_at = the
\* call's now + CodeTTL; no other step of a call adds a row; N successful
\* concurrent calls leave N rows with pairwise distinct codes.
C20_CheckoutPersistsAttempt ==
    [][
      /\ \A w \in CheckoutWorkers :
           \* the sale the call reads is an active row of the record store
           /\ (wk[w].sale = NoSale /\ wk'[w].sale # NoSale)
              => \E i \in DOMAIN rsSales :
                    rsSales[i].active /\ rsSales[i].id = wk'[w].sale.id
           \* 2./5. the clock is read once, for the window and the expiry
           /\ (wk[w].pc # "k_insert" /\ wk'[w].pc = "k_insert")
              => /\ wk'[w].co.expires_at = now + CodeTTL
                 /\ wk'[w].co.sale_id = wk'[w].sale.id
                 /\ wk[w].sale.id \in {0, wk'[w].sale.id}
           \* 6. the one insert of the call
           /\ (wk[w].pc = "k_insert" /\ wk'[w].pc = "k_cache")
              => /\ Len(rsAttempts') = Len(rsAttempts) + 1
                 /\ wk'[w].co.sale_id = wk[w].co.sale_id
                 /\ wk'[w].co.expires_at = wk[w].co.expires_at
           \* 8. the successful response
           /\ (wk[w].pc # "done" /\ wk'[w].op = "checkout"
                 /\ wk'[w].pc = "done" /\ wk'[w].resp.http = 200)
              => /\ wk[w].pc = "k_cache"
                 /\ Cardinality(RowsOfCheckout(w)') = 1
                 /\ \A i \in RowsOfCheckout(w)' :
                       rsAttempts'[i] =
                          [id |-> i, sale_id |-> wk[w].co.sale_id,
                           user_id |-> wk'[w].user, item_id |-> wk'[w].item,
                           code |-> wk'[w].code, status |-> "pending",
                           expires_at |-> wk[w].co.expires_at,
                           purchased |-> FALSE]
      /\ (Len(rsAttempts') # Len(rsAttempts))
            => \E w \in CheckoutWorkers :
                  wk[w].pc = "k_insert" /\ wk'[w].pc = "k_cache"
      /\ DistinctCodes'
    ]_vars

\* Two calls under way at the same time have both returned success, one of
\* them after the clock advanced and the sale was switched.
C20_Witness ==
    /\ CheckoutSucceeded("k1") /\ CheckoutSucceeded("k2")
    /\ Len(rsAttempts) = 2
    /\ rsAttempts[1].expires_at # rsAttempts[2].expires_at
    /\ rsAttempts[1].sale_id # rsAttempts[2].sale_id

(***************************************************************************)
(* Checkouts and a purchase against the running sale with four codes       *)
(* issued, with record-store failures.                                     *)
(***************************************************************************)
NextIssue ==
    \/ \E w \in CheckoutWorkers : CheckoutOf(w, {"u1", "u2"}, {"CHK_d", "CHK_x"})
    \/ \E w \in {"p1"} : PurchaseOf(w, {"CHK_a"})

SpecIssue == InitPurchase /\ [][NextIssue]_vars

\* Checkout call w takes a step.
CheckoutSteps(w) ==
    wk'[w] # wk[w] /\ wk'[w].op = "checkout"

\* The attempt rows of sale saleId that are pending.
PendingCodes(saleId) ==
    {i \in DOMAIN rsAttempts :
        rsAttempts[i].sale_id = saleId /\ rsAttempts[i].status = "pending"}

\* C21: no step of a Checkout call, successful or not, changes a sold
\* counter, a per-user counter or the purchase rows.
C21_CheckoutConsumesNothing ==
    [][\A w \in CheckoutWorkers :
          CheckoutSteps(w)
          => /\ csSold' = csSold
             /\ csUser' = csUser
             /\ rsPurchases' = rsPurchases]_vars

\* A Checkout succeeded and one failed, and more codes of sale 1 are pending
\* than the sale has items, while an item of it is sold.
C21_Witness ==
    /\ \E w \in CheckoutWorkers : CheckoutSucceeded(w)
    /\ \E w \in CheckoutWorkers :
          wk[w].op = "checkout" /\ wk[w].pc = "done" /\ wk[w].resp.http # 200
    /\ Cardinality(PendingCodes(1)) > InventoryMax
    /\ csSold[1] = 1

(***************************************************************************)
(* Checkouts at the end of the sale window (the clock has reached the end  *)
(* time of sale 1, whose row is still active), with the sale being         *)
(* deactivated alongside and record-store failures.                        *)
(***************************************************************************)
NextWindow ==
    \/ \E w \in CheckoutWorkers : CheckoutOf(w, {"u1", "u2"}, {"CHK_d", "CHK_x"})
    \/ \E w \in {"s1"} : DeactivateSale(w)

SpecWindow == InitSaleEnd /\ [][NextWindow]_vars

\* C22: Checkout goes on to issue a code only for an active sale with
\* start <= now < end (now = end is outside the window); when it answers
\* NO_ACTIVE_SALE or SALE_NOT_ACTIVE no attempt row was inserted and nothing
\* was cached.
C22_IssuesOnlyInsideWindow ==
    [][\A w \in CheckoutWorkers :
          /\ (wk[w].pc # "k_insert" /\ wk'[w].pc = "k_insert")
             => /\ wk'[w].sale.start_time <= now
                /\ now < wk'[w].sale.end_time
          /\ (CheckoutSteps(w) /\ wk'[w].pc = "done"
                /\ wk'[w].resp.msg \in {"No active sale at this time",
                                        "Sale is not currently active"})
             => /\ wk'[w].resp.http = 400
                /\ rsAttempts' = rsAttempts
                /\ csCache' = csCache]_vars

\* C23: an insert of the attempt that meets a code that is already there
\* (a unique-constraint violation, the record store being healthy) does not
\* make the Checkout fail: a new code is drawn and the insert retried.
C23_CollisionIsRetried ==
    [][\A w \in CheckoutWorkers :
          (/\ wk[w].op = "checkout" /\ wk[w].pc = "k_insert"
           /\ wk'[w] # wk[w]
           /\ faults' = faults)
          => ~(wk'[w].pc = "done" /\ wk'[w].resp.http # 200)]_vars

(***************************************************************************)
(* Checkout requests with identifiers of every length class against the    *)
(* running sale, with record-store failures.                               *)
(***************************************************************************)
\* The codes the calls below draw from.
FreshCodes == {"CHK_x", "CHK_y"}

NextValidate ==
    \E w \in CheckoutWorkers :
       CheckoutRequest(w, RequestUserIds, RequestItemIds, FreshCodes)

SpecValidate == InitPurchase /\ [][NextValidate]_vars

\* The request of call w is inside the ranges the spec accepts.
InRanges(userId, itemId) ==
    /\ IdLen(userId) >= 1 /\ IdLen(userId) <= 100
    /\ IdLen(itemId) >= 3 /\ IdLen(itemId) <= 50
    /\ IdCharsValid(itemId)

\* C24: a request with user_id of 1 to 100 characters and item_id of 3 to 50
\* characters from [A-Za-z0-9_-] passes validation, and with the sale active
\* and both stores healthy its attempt is persisted and a code returned (no
\* code that can be drawn being there already); any other request is
\* answered 400 before any store is touched.
C24_ValidRequestsAreServed ==
    [][\A w \in CheckoutWorkers :
          /\ (wk[w].pc = "idle" /\ wk'[w].pc # "idle")
             => IF InRanges(wk'[w].user, wk'[w].item)
                THEN wk'[w].pc = "gcas_ptr"
                ELSE /\ wk'[w].pc = "done" /\ wk'[w].resp.http = 400
                     /\ csVars' = csVars /\ rsVars' = rsVars
          /\ (/\ wk[w].op = "checkout" /\ wk[w].pc = "k_insert"
              /\ wk'[w] # wk[w]
              /\ faults' = faults
              /\ \A i \in DOMAIN rsAttempts :
                    rsAttempts[i].code \notin FreshCodes)
             => /\ wk'[w].pc = "k_cache"
                /\ Len(rsAttempts') = Len(rsAttempts) + 1
          /\ (wk[w].op = "checkout" /\ wk[w].pc = "k_cache"
                /\ wk'[w] # wk[w])
             => wk'[w].pc = "done" /\ wk'[w].resp.http = 200]_vars

(***************************************************************************)
(* CreateHourlySale called while the clock advances inside the hour, from  *)
(* the empty stores, by two callers and with record-store failures.        *)
(***************************************************************************)
NextCreate ==
    \/ \E w \in SaleWorkers : CreateHourlySale(w)
    \/ Tick

SpecCreate == InitSales /\ [][NextCreate]_vars

\* C25: CreateHourlySale called at time now takes start = now rounded down
\* to the hour; the row it inserts has that start, end = start + 1 hour,
\* items_available = InventoryMax, items_sold = 0 and active = true; when it
\* returns successfully it returns that sale and has left sold of the new
\* sale = 0 and the active-sale pointer = the new sale's id.
C25_CreateHourlySaleEffect ==
    [][\A w \in SaleWorkers :
          /\ (wk[w].pc = "idle" /\ wk'[w].op = "create")
             => /\ wk'[w].arg % HourLen = 0
                /\ wk'[w].arg <= now
                /\ now < wk'[w].arg + HourLen
          /\ (wk[w].op = "create" /\ wk[w].pc = "c_insert"
                /\ wk'[w].pc = "c_setup")
             => /\ Len(rsSales') = Len(rsSales) + 1
                /\ rsSales'[Len(rsSales')] =
                      [id |-> Len(rsSales'), start_time |-> wk[w].arg,
                       end_time |-> wk[w].arg + HourLen,
                       items_available |-> InventoryMax, items_sold |-> 0,
                       active |-> TRUE]
                /\ wk'[w].sale = rsSales'[Len(rsSales')]
          /\ (wk[w].op = "create" /\ wk[w].pc # "done" /\ CreateCompleted(w)')
             => /\ wk[w].pc = "c_setup"
                /\ wk'[w].arg = wk[w].sale.id
                /\ csSold'[wk[w].sale.id] = 0
                /\ csActive' = wk[w].sale.id]_vars

\* Both callers created a sale after the clock had advanced inside the hour.
C25_Witness ==
    /\ \A w \in SaleWorkers : CreateCompleted(w)
    /\ now > 0
    /\ Len(rsSales) = 2
    /\ \A i \in DOMAIN rsSales : rsSales[i].start_time = 0

(***************************************************************************)
(* CreateHourlySale by two callers from the empty stores, with failures of *)
(* both stores.                                                            *)
(***************************************************************************)
InitCreateFaults ==
    /\ now = 0
    /\ csSold = [s \in SaleIds |-> NoKey]
    /\ csAvailable = [s \in SaleIds |-> NoKey]
    /\ csUser = [k \in Users \X SaleIds |-> NoKey]
    /\ csActive = 0
    /\ csCache = << >>
    /\ rsSales = << >>
    /\ rsAttempts = << >>
    /\ rsPurchases = << >>
    /\ wk = [w \in Workers |-> IdleWorker]
    /\ faults = [rs |-> MaxFailures, cs |-> MaxCsFailures]

NextCreateFaults ==
    \/ \E w \in SaleWorkers : CreateHourlySale(w)
    \/ \E w \in {"k1"} : CheckoutOf(w, {"u1"}, {"CHK_a"})

SpecCreateFaults == InitCreateFaults /\ [][NextCreateFaults]_vars

\* CreateHourlySale call w returned the error of a failed Setup.
SetupFailed(w) ==
    /\ wk[w].op = "create" /\ wk[w].pc = "done"
    /\ wk[w].resp.msg = "failed to setup sale in Redis"

InitGcas ==
    /\ now = 0
    /\ csSold = [s \in SaleIds |-> IF s = 1 THEN 0 ELSE NoKey]
    /\ csAvailable = [s \in SaleIds |-> IF s = 1 THEN InventoryMax ELSE NoKey]
    /\ csUser = [k \in Users \X SaleIds |-> NoKey]
    /\ csActive = 1
    /\ csCache = << >>
    /\ rsSales = <<Sale1>>
    /\ rsAttempts = << >>
    /\ rsPurchases = << >>
    /\ wk = [w \in Workers |-> IdleWorker]
    /\ faults = [rs |-> MaxFailures, cs |-> MaxCsFailures]

NextGcas ==
    \/ \E w \in CheckoutWorkers : CheckoutOf(w, {"u1"}, {"CHK_a", "CHK_b"})
    \/ \E w \in {"s1"} : CreateHourlySale(w)
    \/ \E w \in {"s1"} : ActivateSale(w)
    \/ \E w \in {"s1"} : DeactivateSale(w)

SpecGcas == InitGcas /\ [][NextGcas]_vars

\* GetCurrentActiveSale, called by w, takes a step.
GcasSteps(w) == wk[w].pc \in GcasPcs /\ wk'[w] # wk[w]

\* What GetCurrentActiveSale hands to processCheckout in this step.
GcasReturnsError(w) ==
    /\ wk'[w].pc = "done"
    /\ wk'[w].resp.msg = "Unable to process checkout at this time"
GcasReturnsNone(w) ==
    /\ wk'[w].pc = "done"
    /\ wk'[w].resp.msg = "No active sale at this time"
GcasReturnsSale(w) ==
    \/ wk'[w].pc = "k_insert"
    \/ /\ wk'[w].pc = "done"
       /\ wk'[w].resp.msg = "Sale is not currently active"

\* The sale GetCurrentActiveSale takes up is a row that is active when it is
\* read, and the sale it returns is the one it took up.
ReturnsActiveRow(w) ==
    /\ (wk[w].sale = NoSale /\ wk'[w].sale # NoSale)
       => /\ wk'[w].sale.id \in ActiveRows
          /\ wk'[w].sale = rsSales[wk'[w].sale.id]
    /\ (wk[w].sale # NoSale /\ wk'[w].pc \in GcasPcs \cup {"k_insert"})
       => wk'[w].sale = wk[w].sale
    /\ wk'[w].pc = "k_insert" => wk'[w].sale # NoSale

\* The fallback query decides: an active sale if one exists, none if none.
FallbackDecides(w) ==
    (wk[w].pc = "gcas_db" /\ faults' = faults)
    => IF ActiveRows # {}
       THEN wk'[w].pc = "gcas_set" /\ wk'[w].sale.id \in ActiveRows
       ELSE GcasReturnsNone(w)

DriftBuyers == {"p1", "p2"}

NextDrift ==
    \/ \E w \in DriftBuyers : PurchaseOf(w, {"CHK_a", "CHK_c"})
    \/ \E w \in CheckoutWorkers : CheckoutOf(w, {"u1"}, {"CHK_x"})

SpecDrift == InitPurchase /\ [][NextDrift]_vars

GcasCallers == PurchaseWorkers \cup CheckoutWorkers

\* |a - b|
AbsDiff(a, b) == IF a < b THEN b - a ELSE a - b

\* C28: on the fast path GetCurrentActiveSale issues the update of
\* items_sold to the sold counter's value exactly when the two differ by
\* more than DriftThreshold, and the update, when the record store takes it,
\* sets items_sold to that value; with a difference of at most
\* DriftThreshold the call leaves items_sold as it is.
C28_SyncIffDriftExceedsThreshold ==
    [][\A w \in GcasCallers :
          /\ (wk[w].pc = "gcas_sync" /\ wk'[w] # wk[w])
             => /\ rsSales' = rsSales
                /\ wk'[w].pc = "gcas_syncw"
                      <=> AbsDiff(Val(csSold[wk[w].sale.id]),
                                  wk[w].sale.items_sold) > DriftThreshold
                /\ wk'[w].pc = "gcas_syncw"
                      => wk'[w].sold = Val(csSold[wk[w].sale.id])
          /\ (wk[w].pc = "gcas_syncw" /\ wk'[w] # wk[w] /\ faults' = faults)
             => rsSales' = [rsSales EXCEPT ![wk[w].sale.id] =
                               [@ EXCEPT !.items_sold = wk[w].sold]]
          /\ (wk[w].pc \in GcasPcs \ {"gcas_syncw"} /\ wk'[w] # wk[w])
             => rsSales' = rsSales]_vars

\* Both cases happened: items_sold was brought to the sold counter's value
\* 1, and a later purchase call read that row, found no difference (the
\* counter only grows here and still stands at 1), left the row alone and
\* went on to its purchase.
C28_Witness ==
    /\ csSold[1] = 1 /\ rsSales[1].items_sold = 1
    /\ \E w \in DriftBuyers :
          wk[w].pc = "p_attempt" /\ wk[w].sale.items_sold = 1

\* C29: items_sold of a sale row never decreases and stays within
\* 0 .. items_available.
C29_ItemsSoldMonotonic ==
    [][\A i \in DOMAIN rsSales :
          /\ rsSales'[i].items_sold >= rsSales[i].items_sold
          /\ rsSales'[i].items_sold >= 0
          /\ rsSales'[i].items_sold <= rsSales'[i].items_available]_vars

\* ActivateSale, called by w, returns without an error in this step.
ActivateReturnsOk(w) ==
    /\ wk[w].op = "activate" /\ wk[w].pc = "a_setup"
    /\ wk'[w].pc = "done" /\ wk'[w].resp.http = 200

\* C30: when ActivateSale(id) returns without an error, the row of sale id
\* is active, no other row is active and the active-sale pointer equals id;
\* ActivateSale of an id that no row has returns an error.
C30_ActivateMakesSaleActive ==
    [][\A w \in SaleWorkers :
          /\ ActivateReturnsOk(w)
             => /\ rsSales'[wk[w].arg].active
                /\ \A i \in DOMAIN rsSales' :
                      rsSales'[i].active => i = wk[w].arg
                /\ csActive' = wk[w].arg
          /\ (wk[w].op = "activate" /\ wk[w].pc = "a_get"
                /\ wk'[w] # wk[w] /\ wk[w].arg \notin DOMAIN rsSales)
             => wk'[w].pc = "done" /\ wk'[w].resp.http = 500]_vars

\* The user_purchases values that the successful Purchase calls for (u, s)
\* returned.
ReturnedUserPurchases(u, s) ==
    {wk[w].resp.userPurchases : w \in SuccessFor(u, s)}

\* C31: the successful Purchase calls of a user within one sale return
\* pairwise distinct user_purchases values, and these are exactly 1..m for
\* m successes (the k-th success returns k), once every call has returned.
C31_UserPurchasesCountSuccesses ==
    (\A w \in PurchaseWorkers : Finished(w))
    => \A u \in Users, s \in SaleIds :
        /\ Cardinality(ReturnedUserPurchases(u, s))
              = Cardinality(SuccessFor(u, s))
        /\ ReturnedUserPurchases(u, s) = 1 .. Cardinality(SuccessFor(u, s))

(***************************************************************************)
(* BackgroundSaleManager: Start, Stop, ensureActiveSale and                *)
(* createNewHourlySale.  The process starts at any minute of the hour,     *)
(* against empty stores or stores a previous run of the program left.      *)
(***************************************************************************)
\* BackgroundSaleManager.Start up to the loop: go bsm.ensureActiveSale(ctx),
\* ticker := time.NewTicker(time.Hour).
Start ==
    /\ wk["bsm"].pc = "idle"
    /\ wk' = [wk EXCEPT
                !["bsm"] = [@ EXCEPT !.op = "start", !.pc = "loop",
                                     !.at = now, !.tickAt = now + HourLen],
                !["e1"] = [@ EXCEPT !.op = "ensure", !.pc = "gcas_ptr",
                                    !.at = now]]
    /\ UNCHANGED <<now, csVars, rsVars, faults>>

\* The ticker is due: it has been created, it has not been stopped (defer
\* ticker.Stop()) and the clock has reached its next firing time.
TickerDue ==
    wk["bsm"].pc = "loop" /\ now >= wk["bsm"].tickAt

\* The runtime's timer sends on ticker.C, a channel of capacity 1 (a tick
\* that finds the channel full is dropped), and rearms one period later.
TickerFire ==
    /\ TickerDue
    /\ wk' = [wk EXCEPT !["bsm"] = [@ EXCEPT !.tickerC = 1,
                                             !.tickAt = @ + HourLen]]
    /\ UNCHANGED <<now, csVars, rsVars, faults>>

\* The goroutine the loop launches next.
NextHourlyWorker ==
    IF wk["h1"].pc = "idle" THEN "h1" ELSE "h2"

\* select: case <-ticker.C: go bsm.createNewHourlySale(ctx).  With both
\* channels ready select takes either case.
LoopTick ==
    /\ wk["bsm"].pc = "loop" /\ wk["bsm"].tickerC = 1
    /\ wk[NextHourlyWorker].pc = "idle"
    /\ wk' = [wk EXCEPT
                !["bsm"] = [@ EXCEPT !.tickerC = 0],
                ![NextHourlyWorker] = [@ EXCEPT !.op = "create",
                                                !.pc = "c_start", !.at = now]]
    /\ UNCHANGED <<now, csVars, rsVars, faults>>

\* select: case <-bsm.stopChan: return (the goroutines launched are not
\* waited for).
LoopStop ==
    /\ wk["bsm"].pc = "loop" /\ wk["bsm"].stopChan
    /\ wk' = [wk EXCEPT !["bsm"] = [@ EXCEPT !.pc = "done"]]
    /\ UNCHANGED <<now, csVars, rsVars, faults>>

\* BackgroundSaleManager.Stop: close(bsm.stopChan), deferred by main after
\* `go saleManager.Start(ctx)`.
Stop ==
    /\ wk["bsm"].pc # "idle"
    /\ ~wk["bsm"].stopChan
    /\ wk' = [wk EXCEPT !["bsm"] = [@ EXCEPT !.stopChan = TRUE]]
    /\ UNCHANGED <<now, csVars, rsVars, faults>>

\* ensureActiveSale and createNewHourlySale: the steps of the goroutine w.
\* Their results are only logged.
SchedulerGoroutine(w) ==
    \/ (wk[w].op = "ensure" /\ GetCurrentActiveSale(w))
    \/ CreateStartAt(w, "c_start")
    \/ CreateDeactivate(w)
    \/ CreateInsert(w)
    \/ CreateSetup(w)

\* The wall clock advances.  The timer and the loop are prompt: a tick that
\* is due is delivered, and a delivered tick is received, before the clock
\* moves on.
ClockTick ==
    /\ now < MaxClock
    /\ ~TickerDue
    /\ ~(wk["bsm"].pc = "loop" /\ wk["bsm"].tickerC = 1)
    /\ now' = now + 1
    /\ UNCHANGED <<csVars, rsVars, wk, faults>>

\* A sale row a previous run of the program created at hour start.
OldSale(start, sold) ==
    [id |-> 1, start_time |-> start, end_time |-> start + HourLen,
     items_available |-> InventoryMax, items_sold |-> sold, active |-> TRUE]

\* Items sold to u1 in the current hour before the process starts: the
\* least number that syncSaleCounters reconciles.
SoldBefore == DriftThreshold + 1

\* What the stores hold when the process starts: nothing; the sale of the
\* current hour with SoldBefore items sold, in the sold counter only or in
\* the row as well; or the sale of the hour before, still active.
StoreStates == {"fresh", "current", "reconciled", "previous"}

\* The process starts at minute `now` of hour 0.
InitSched ==
    /\ now \in 0 .. (HourLen - 1)
    /\ \E st \in StoreStates :
         /\ rsSales = CASE st = "fresh" -> << >>
                        [] st = "current" -> <<OldSale(0, 0)>>
                        [] st = "reconciled" -> <<OldSale(0, SoldBefore)>>
                        [] st = "previous" -> <<OldSale(0 - HourLen, 0)>>
         /\ csSold = [s \in SaleIds |->
                         IF s # 1 \/ st = "fresh" THEN NoKey
                         ELSE IF st = "previous" THEN 0 ELSE SoldBefore]
         /\ csAvailable = [s \in SaleIds |->
                              IF s # 1 \/ st = "fresh" THEN NoKey
                              ELSE InventoryMax]
         /\ csUser = [k \in Users \X SaleIds |->
                         IF k = <<"u1", 1>> /\ st \in {"current", "reconciled"}
                         THEN SoldBefore ELSE NoKey]
         /\ csActive = IF st = "fresh" THEN 0 ELSE 1
    /\ csCache = << >>
    /\ rsAttempts = << >>
    /\ rsPurchases = << >>
    /\ wk = [w \in Workers |-> IdleWorker]
    /\ faults = RSFaults(MaxFailures)

NextSched ==
    \/ Start
    \/ TickerFire
    \/ LoopTick
    \/ LoopStop
    \/ Stop
    \/ \E w \in {"e1"} \cup HourlyWorkers : SchedulerGoroutine(w)
    \/ ClockTick

SpecSched == InitSched /\ [][NextSched]_vars

\* The loop launches createNewHourlySale in this step.
LaunchesHourly(w) == wk[w].pc = "idle" /\ wk'[w].pc # "idle"

\* The scheduler is running: Start is in its loop and no stop signal has
\* been given.
SchedulerRunning == wk["bsm"].pc = "loop" /\ ~wk["bsm"].stopChan

\* C32: while the scheduler is running it launches CreateHourlySale only at
\* hour boundaries, and the clock does not pass an hour boundary later than
\* the start without a launch at that boundary, whatever the minute of the
\* start.
C32_CreatesAtEveryHourBoundary ==
    [][/\ \A w \in HourlyWorkers :
             LaunchesHourly(w) => now % HourLen = 0
       /\ (now' # now /\ now % HourLen = 0 /\ SchedulerRunning
             /\ wk["bsm"].at < now)
          => \E w \in HourlyWorkers : wk[w].pc # "idle" /\ wk[w].at = now
      ]_vars

\* ensureActiveSale, run by e1, takes a step of its GetCurrentActiveSale.
EnsureSteps ==
    wk["e1"].op = "ensure" /\ wk["e1"].pc \in GcasPcs /\ wk'["e1"] # wk["e1"]

\* That step is the one in which GetCurrentActiveSale reports no active
\* sale: the fallback query ran and found no active row.
EnsureFindsNone ==
    wk["e1"].pc = "gcas_db" /\ faults' = faults /\ ActiveRows = {}

\* The rows of table sales are the same but for the items_sold of row i.
SameButItemsSold(i) ==
    rsSales' = [rsSales EXCEPT ![i] = [@ EXCEPT !.items_sold = rsSales'[i].items_sold]]

\* C33 as stated: ensureActiveSale goes on to CreateHourlySale exactly when
\* its GetCurrentActiveSale reports no active sale, and otherwise creates
\* nothing and leaves the record store unchanged.
C33_EnsureLeavesStoreUnchanged ==
    [][EnsureSteps
          => /\ wk'["e1"].pc = "c_start" <=> EnsureFindsNone
             /\ rsVars' = rsVars]_vars

\* C33, amended: ensureActiveSale goes on to CreateHourlySale exactly when
\* its GetCurrentActiveSale reports no active sale; otherwise it creates
\* nothing, and the only record-store write of the call is the
\* reconciliation of items_sold of the sale that was found.
C33_EnsureCreatesIffNone ==
    [][EnsureSteps
          => /\ wk'["e1"].pc = "c_start" <=> EnsureFindsNone
             /\ wk'["e1"].pc # "c_start"
                   => wk'["e1"].pc \in GcasPcs \cup {"done"}
             /\ rsAttempts' = rsAttempts /\ rsPurchases' = rsPurchases
             /\ \/ rsSales' = rsSales
                \/ /\ wk["e1"].pc = "gcas_syncw"
                   /\ SameButItemsSold(wk["e1"].sale.id)
                   /\ rsSales'[wk["e1"].sale.id].items_sold = wk["e1"].sold]_vars

\* Against empty stores ensureActiveSale found no sale and created sale 1.
C33_Witness ==
    /\ wk["e1"].op = "create" /\ wk["e1"].pc = "done"
    /\ wk["e1"].resp.http = 200 /\ wk["e1"].arg = 1
    /\ Len(rsSales) = 1 /\ rsSales[1].active /\ csActive = 1

\* Goroutine w is inside CreateHourlySale, or about to call it.
CreationInFlight(w) ==
    wk[w].pc \in {"c_start", "c_deact", "c_insert", "c_setup", "c_rollback"}

\* C34: once the stop signal is given no goroutine of the scheduler starts
\* a CreateHourlySale, and Start has not returned while a creation the
\* scheduler launched is in flight.
C34_StopWaitsForCreations ==
    [][/\ wk["bsm"].stopChan
          => \A w \in {"e1"} \cup HourlyWorkers :
                (wk'[w].pc = "c_start") => (wk[w].pc = "c_start")
       /\ wk'["bsm"].pc = "done"
          => \A w \in {"e1"} \cup HourlyWorkers : ~CreationInFlight(w)'
      ]_vars

\* The active sales whose window [start, end) contains the current time.
OpenSales ==
    {i \in ActiveRows :
        rsSales[i].start_time <= now /\ now < rsSales[i].end_time}

\* The scheduler is at rest: the initial ensureActiveSale has finished, no
\* failure has occurred, no tick is due or waiting and no creation is in
\* flight.
SchedulerAtRest ==
    /\ SchedulerRunning
    /\ wk["e1"].pc = "done"
    /\ faults = RSFaults(MaxFailures)
    /\ ~TickerDue /\ wk["bsm"].tickerC = 0
    /\ \A w \in HourlyWorkers : ~CreationInFlight(w)

\* C38: once the scheduler has started with healthy stores and its initial
\* ensureActiveSale has finished, at every instant at which the scheduler
\* is at rest there is an active sale whose window contains the current
\* time.
C38_AlwaysAnOpenSale ==
    SchedulerAtRest => OpenSales # {}

(***************************************************************************)
(* A sale being created while a Checkout and a Purchase run: sale 1 is     *)
(* running, CreateHourlySale creates sale 2, and the requests may see the  *)
(* new row before the counter store is set up.  No store fails.            *)
(***************************************************************************)
InitRace == InitRunning /\ faults = RSFaults(0)

NextRace ==
    \/ \E w \in {"s1"} : CreateHourlySale(w)
    \/ \E w \in {"k1"} : CheckoutOf(w, {"u1"}, {"CHK_x"})
    \/ \E w \in {"p1"} : PurchaseOf(w, {"CHK_x"})

SpecRace == InitRace /\ [][NextRace]_vars

\* The Purchase calls whose AtomicPurchase on sale s succeeded.
AtomicSuccesses(s) ==
    {w \in PurchaseWorkers :
        wk[w].res.status = "success" /\ wk[w].co.sale_id = s}

\* C35: once the creation of a sale and the Checkout and Purchase calls
\* running alongside it have returned, the sold counter of every sale equals
\* the number of AtomicPurchase successes on it.
C35_SetupKeepsPurchases ==
    (\A w \in {"s1", "k1", "p1"} : wk[w].pc = "done")
    => \A s \in SaleIds : Val(csSold[s]) = Cardinality(AtomicSuccesses(s))

\* The sum of the per-user counters of sale s over the users in us.
RECURSIVE UserCountSum(_, _)
UserCountSum(us, s) ==
    IF us = {} THEN 0
    ELSE LET u == CHOOSE x \in us : TRUE
         IN  Val(csUser[<<u, s>>]) + UserCountSum(us \ {u}, s)

\* C37: in every state of the counter store the sold counter of a sale
\* equals the sum of the sale's per-user counters.
C37_SoldEqualsUserSum ==
    \A s \in SaleIds : Val(csSold[s]) = UserCountSum(Users, s)

\* C36: in every state in which the sold key of a sale exists, the number
\* of purchase rows of the sale is at most the sale's sold counter.
C36_RowsWithinSold ==
    \A s \in SaleIds :
        csSold[s] # NoKey => Cardinality(PurchaseRows(s)) <= Val(csSold[s])

(***************************************************************************)
(* DeactivateSale and CreateHourlySale called concurrently while sale 1    *)
(* is running, with record-store failures.                                 *)
(***************************************************************************)
NextDeactivate ==
    \/ \E w \in SaleWorkers : CreateHourlySale(w)
    \/ \E w \in SaleWorkers : DeactivateSale(w)

SpecDeactivate == InitPurchase /\ [][NextDeactivate]_vars

\* DeactivateSale, called by w, takes a step.
DeactivateSteps(w) ==
    (wk[w].op = "deactivate" \/ wk'[w].op = "deactivate") /\ wk'[w] # wk[w]

\* C40: DeactivateSale(id), when its update works, leaves the row of sale id
\* inactive, and it changes the active-sale pointer only to clear a pointer
\* that names id: a pointer that names another sale is left as it is.
C40_DeactivateClearsOnlyOwnPointer ==
    [][\A w \in SaleWorkers :
          DeactivateSteps(w)
          => /\ wk'[w].pc = "d_ptr" => ~rsSales'[wk'[w].arg].active
             /\ csActive' # csActive
                   => csActive = wk[w].arg /\ csActive' = 0]_vars

\* No call is in flight.
NothingInFlight == \A w \in Workers : wk[w].pc \in {"idle", "done"}

\* C39: whenever no call is in flight, the active-sale pointer is absent
\* (zero) or names a sale whose row is active.
C39_PointerNamesActiveSale ==
    NothingInFlight => (csActive = 0 \/ csActive \in ActiveRows)

=============================================================================
